---- MODULE Spec2Model ----
(***************************************************************************)
(* A model of the array-API semantic engine described by the function      *)
(* contracts of array_api_stubs/_draft: the four unique set functions and   *)
(* the linear-algebra functions (matmul, tensordot).                        *)
(*                                                                         *)
(* The engine is stateless: every call reads its operands and returns a    *)
(* fresh result.  A behaviour is a series of calls: from "idle" one entry  *)
(* point is called with operands drawn from bounded sets and computes its  *)
(* outcome in one step ("done"); Return discards the outcome.              *)
(*                                                                         *)
(* Where the contract leaves a choice to the implementation (the order of  *)
(* the unique values, the signed zero that represents the zeros), the      *)
(* model takes every choice the contract allows.                           *)
(***************************************************************************)
EXTENDS Integers, Sequences, FiniteSets

VARIABLES pc, op, x1, x2, axes, out, tables, work

vars == <<pc, op, x1, x2, axes, out, tables, work>>

(***************************************************************************)
(* Bounds of the model.                                                    *)
(***************************************************************************)
\* longest flattened input of the unique_* functions
MaxLen == 3
\* most axes of an operand of the linear-algebra functions
MaxRank == 3
\* most elements of an operand of the linear-algebra functions
MaxSize == 4
\* the fills an operand is drawn from are 0..MaxFill
MaxFill == 1
\* the scalars given to arange lie in -MaxValue..MaxValue
MaxValue == 2

\* a call of the set functions may split its input into 1..MaxParts partitions
MaxParts == 2

\* an operand of a call followed step by step has at most MaxWork elements
MaxWork == 3

(***************************************************************************)
(* Generic helpers.                                                        *)
(***************************************************************************)
RECURSIVE Prod(_)
Prod(s) == IF s = <<>> THEN 1 ELSE Head(s) * Prod(Tail(s))

RECURSIVE SumSeq(_)
SumSeq(s) == IF s = <<>> THEN 0 ELSE Head(s) + SumSeq(Tail(s))

Min(S) == CHOOSE m \in S : \A n \in S : m <= n

\* all orderings of a finite set, as sequences without repetition
RECURSIVE Perms(_)
Perms(S) ==
    IF S = {} THEN {<<>>}
    ELSE UNION {{<<e>> \o p : p \in Perms(S \ {e})} : e \in S}

\* number of elements of an array of the given shape
Size(shape) == Prod(shape)

NoArray == [shape |-> <<0>>, data |-> <<>>]
NoOut == [kind |-> "none"]
\* the axes argument when none is given: the default of tensordot, the integer 2
NoAxes == [int |-> TRUE, n |-> 2, a1 |-> <<>>, a2 |-> <<>>]

\* the group tables of a call that is not partitioned
NoTables == [asg |-> <<>>, scanned |-> <<>>, part |-> <<>>, merged |-> <<>>, table |-> <<>>]

\* the progress of a call that is not followed step by step: no check passed,
\* no element computed
NoWork == [passed |-> 0, buffer |-> <<>>]

(***************************************************************************)
(* Floating-point scalars of the set functions: sign, magnitude and a NaN  *)
(* flag, so that -0 and +0 are different bit patterns that compare equal    *)
(* and NaN is a bit pattern that compares unequal to itself.  Every        *)
(* element is a (re, im) pair; a real array has im = +0 throughout.         *)
(***************************************************************************)
FNum(neg, mag) == [nan |-> FALSE, neg |-> neg, mag |-> mag]
NaN == [nan |-> TRUE, neg |-> FALSE, mag |-> 0]
PosZero == FNum(FALSE, 0)
NegZero == FNum(TRUE, 0)
One == FNum(FALSE, 1)
Two == FNum(FALSE, 2)

Cx(re, im) == [re |-> re, im |-> im]

RealElems == {Cx(f, PosZero) : f \in {NaN, NegZero, PosZero, One, Two}}
ComplexElems == {Cx(One, NaN), Cx(NaN, One), Cx(PosZero, NegZero), Cx(NegZero, PosZero), Cx(One, Two)}

\* faulty comparison: bit patterns are compared, so a NaN equals itself
REqualNaNReflexive(a, b) ==
    \/ (a.nan /\ b.nan)
    \/ (~a.nan /\ ~b.nan /\ a.mag = b.mag /\ (a.neg = b.neg \/ a.mag = 0))

\* IEEE 754 comparison of two real scalars (array_api.equal)
REqual(a, b) ==
    /\ ~a.nan
    /\ ~b.nan
    /\ a.mag = b.mag
    /\ (a.neg = b.neg \/ a.mag = 0)

\* faulty comparison: the sign of a zero is compared too
EqualSigned(a, b) == ~a.re.nan /\ ~a.im.nan /\ a = b

\* value equality of two elements: both components compare equal
Equal(a, b) == REqual(a.re, b.re) /\ REqual(a.im, b.im)

HasNaN(e) == e.re.nan \/ e.im.nan
IsZero(e) == ~HasNaN(e) /\ e.re.mag = 0 /\ e.im.mag = 0

\* shapes a flattened input of n elements is drawn from: one-dimensional,
\* two rows when n is even, zero-dimensional when n is 1
UShapes(n) ==
    {<<n>>}
        \cup (IF n >= 2 /\ n % 2 = 0 THEN {<<2, n \div 2>>} ELSE {})
        \cup (IF n = 1 THEN {<<>>} ELSE {})

UInputs ==
    UNION {
        {[dtype |-> dt, shape |-> sh, data |-> d] :
            sh \in UShapes(n),
            d \in [1..n -> IF dt = "float64" THEN RealElems ELSE ComplexElems]}
        : n \in 0..MaxLen, dt \in {"float64", "complex128"}}

(***************************************************************************)
(* The uniqueness engine.  Positions are those of the flattened input,     *)
(* 1-based inside the model and 0-based in the returned index arrays.       *)
(***************************************************************************)
\* first position whose element compares equal to the one at i; an element
\* that equals nothing (a NaN) is its own first occurrence
FirstOcc(d, i) ==
    IF \E j \in 1..i : Equal(d[j], d[i])
    THEN Min({j \in 1..i : Equal(d[j], d[i])})
    ELSE i

\* faulty grouping: a group is named by its last occurrence
GroupingLast(d) ==
    [i \in 1..Len(d) |->
        IF \E j \in 1..Len(d) : Equal(d[j], d[i])
        THEN CHOOSE j \in 1..Len(d) :
                /\ Equal(d[j], d[i])
                /\ \A k \in 1..Len(d) : Equal(d[k], d[i]) => k <= j
        ELSE i]

\* the group of every position, named by the position of its first occurrence
Grouping(d) == [i \in 1..Len(d) |-> FirstOcc(d, i)]

\* the groups of a grouping
Firsts(grp) == {grp[i] : i \in DOMAIN grp}

\* positions of the group whose first occurrence is f
Members(grp, f) == {i \in DOMAIN grp : grp[i] = f}

\* the values the implementation may return for the groups in the order ord:
\* for each group one of its elements
Reps(d, grp, ord) ==
    {v \in [1..Len(ord) -> {d[i] : i \in 1..Len(d)}] :
        \A g \in 1..Len(ord) : \E i \in Members(grp, ord[g]) : v[g] = d[i]}

Values(vals) == [shape |-> <<Len(vals)>>, data |-> vals]

\* faulty indices: every group is given the first occurrence of the first group
IndicesOfFirstGroup(ord) ==
    [shape |-> <<Len(ord)>>, data |-> [g \in 1..Len(ord) |-> ord[1] - 1]]

Indices(ord) ==
    [shape |-> <<Len(ord)>>, data |-> [g \in 1..Len(ord) |-> ord[g] - 1]]

\* faulty inverse: indexes the groups in input order, not in the returned order
InverseIndicesInputOrder(shape, grp, ord) ==
    [shape |-> shape,
     data |-> [i \in 1..Len(grp) |-> Cardinality({f \in Firsts(grp) : f < grp[i]})]]

InverseIndices(shape, grp, ord) ==
    [shape |-> shape,
     data |-> [i \in 1..Len(grp) |-> (CHOOSE g \in 1..Len(ord) : ord[g] = grp[i]) - 1]]

\* faulty count: the first occurrence is not counted
CountsRepeats(grp, ord) ==
    [shape |-> <<Len(ord)>>,
     data |-> [g \in 1..Len(ord) |-> Cardinality(Members(grp, ord[g])) - 1]]

Counts(grp, ord) ==
    [shape |-> <<Len(ord)>>,
     data |-> [g \in 1..Len(ord) |-> Cardinality(Members(grp, ord[g]))]]

\* the four entry points: projections of one result
unique_all(x, grp, ord, vals) ==
    [kind |-> "ok",
     values |-> Values(vals),
     indices |-> Indices(ord),
     inverse_indices |-> InverseIndices(x.shape, grp, ord),
     counts |-> Counts(grp, ord)]

unique_counts(x, grp, ord, vals) ==
    [kind |-> "ok", values |-> Values(vals), counts |-> Counts(grp, ord)]

unique_inverse(x, grp, ord, vals) ==
    [kind |-> "ok", values |-> Values(vals),
     inverse_indices |-> InverseIndices(x.shape, grp, ord)]

unique_values(x, grp, ord, vals) ==
    [kind |-> "ok", values |-> Values(vals)]

(***************************************************************************)
(* Partitioned grouping.  The flattened input is split into partitions;    *)
(* a worker per partition builds a group table over the positions of its   *)
(* partition, counted from 1 within the partition; after one               *)
(* synchronization the tables are merged, one partition at a time in any   *)
(* order, into one table over the positions of the whole input.  An entry  *)
(* of a table is a group: its first position, its positions, its count.    *)
(***************************************************************************)
PElems == {Cx(f, PosZero) : f \in {NaN, NegZero, PosZero, One}}

PInputs ==
    UNION {{[dtype |-> "float64", shape |-> <<n>>, data |-> d] : d \in [1..n -> PElems]}
              : n \in 0..MaxLen}

\* the ways to assign n positions to at most parts partitions, a partition
\* being numbered by the order in which its first position comes
Assignments(n, parts) ==
    {a \in [1..n -> 1..parts] :
        \A i \in 1..n : \A q \in 1..(a[i] - 1) : \E j \in 1..(i - 1) : a[j] = q}

\* the positions of partition p, and the l-th of them
PositionsOf(asg, p) == {i \in 1..Len(asg) : asg[i] = p}

GlobalPosition(asg, p, l) ==
    CHOOSE i \in PositionsOf(asg, p) :
        Cardinality({j \in PositionsOf(asg, p) : j <= i}) = l

Group(first, members) ==
    [first |-> first, members |-> members, count |-> Cardinality(members)]

\* a worker places the l-th element of its partition in its table: into the
\* group of an equal element, or into a new group
Placed(entries, l, d, asg, p) ==
    LET e == d[GlobalPosition(asg, p, l)]
        same == {k \in 1..Len(entries) :
                    Equal(d[GlobalPosition(asg, p, entries[k].first)], e)}
    IN IF same = {}
       THEN Append(entries, Group(l, {l}))
       ELSE LET k == CHOOSE k \in same : TRUE
            IN [entries EXCEPT ![k] = [first |-> @.first,
                                       members |-> @.members \cup {l},
                                       count |-> @.count + 1]]

\* a group of partition p in the positions of the whole input
Lifted(asg, p, g) ==
    [first |-> GlobalPosition(asg, p, g.first),
     members |-> {GlobalPosition(asg, p, l) : l \in g.members},
     count |-> g.count]

\* faulty merge: the first occurrence is that of the partition merged first
JoinedFirstMerged(a, b) ==
    [first |-> a.first,
     members |-> a.members \cup b.members,
     count |-> a.count + b.count]

\* two groups of equal elements become one: the earlier first occurrence,
\* the counts added
Joined(a, b) ==
    [first |-> Min({a.first, b.first}),
     members |-> a.members \cup b.members,
     count |-> a.count + b.count]

\* a lifted group g enters the merged table
Absorbed(table, g, d) ==
    LET same == {k \in 1..Len(table) : Equal(d[table[k].first], d[g.first])}
    IN IF same = {}
       THEN Append(table, g)
       ELSE LET k == CHOOSE k \in same : TRUE
            IN [table EXCEPT ![k] = Joined(@, g)]

RECURSIVE AbsorbedAll(_, _, _)
AbsorbedAll(table, gs, d) ==
    IF gs = <<>> THEN table
    ELSE AbsorbedAll(Absorbed(table, Head(gs), d), Tail(gs), d)

\* the merged table after the table of partition p has been merged into it
MergedWith(table, entries, asg, p, d) ==
    AbsorbedAll(table, [k \in 1..Len(entries) |-> Lifted(asg, p, entries[k])], d)

\* the values an implementation may return for the groups of the merged
\* table in the order ord: for each group one of its elements
MergedReps(d, table, ord) ==
    {v \in [1..Len(ord) -> {d[i] : i \in 1..Len(d)}] :
        \A g \in 1..Len(ord) : \E i \in table[ord[g]].members : v[g] = d[i]}

\* the result of unique_all read off the merged table
merged_unique_all(x, table, ord, vals) ==
    [kind |-> "ok",
     values |-> Values(vals),
     indices |-> [shape |-> <<Len(ord)>>,
                  data |-> [g \in 1..Len(ord) |-> table[ord[g]].first - 1]],
     inverse_indices |->
         [shape |-> x.shape,
          data |-> [i \in 1..Len(x.data) |->
                       (CHOOSE g \in 1..Len(ord) : i \in table[ord[g]].members) - 1]],
     counts |-> [shape |-> <<Len(ord)>>,
                 data |-> [g \in 1..Len(ord) |-> table[ord[g]].count]]]

(***************************************************************************)
(* Arrays of the linear-algebra functions: a shape and the elements in     *)
(* row-major order.  Elements are Gaussian integers (re, im), so that a    *)
(* conjugated operand shows in the result; a real array has im = 0.         *)
(***************************************************************************)
Rank(x) == Len(x.shape)

CZero == [re |-> 0, im |-> 0]
CAdd(a, b) == [re |-> a.re + b.re, im |-> a.im + b.im]
CMul(a, b) == [re |-> a.re * b.re - a.im * b.im, im |-> a.re * b.im + a.im * b.re]
Conj(a) == [re |-> a.re, im |-> 0 - a.im]

\* sum of f[0], ..., f[n-1]
RECURSIVE CSum(_, _)
CSum(f, n) == IF n = 0 THEN CZero ELSE CAdd(CSum(f, n - 1), f[n - 1])

\* sum of f[c] over the multi-indices c of C
RECURSIVE CSumOver(_, _)
CSumOver(f, C) ==
    IF C = {} THEN CZero
    ELSE LET c == CHOOSE e \in C : TRUE IN CAdd(f[c], CSumOver(f, C \ {c}))

\* s[a..b] with 1-based bounds, empty when a > b
Slice(s, a, b) == [i \in 1..(b - a + 1) |-> s[a + i - 1]]

\* offset of the 0-based multi-index idx in a row-major array of this shape
FlatIndex(shape, idx) ==
    SumSeq([i \in 1..Len(shape) |-> idx[i] * Prod(Slice(shape, i + 1, Len(shape)))])

\* the 0-based multi-index of offset n
Unflat(shape, n) ==
    [i \in 1..Len(shape) |-> (n \div Prod(Slice(shape, i + 1, Len(shape)))) % shape[i]]

\* all 0-based multi-indices of a shape
MultiIndices(shape) == {Unflat(shape, n) : n \in 0..(Size(shape) - 1)}

\* the array of the given shape whose element at idx is f[idx]
FromFunction(shape, f) ==
    [shape |-> shape, data |-> [n \in 1..Size(shape) |-> f[Unflat(shape, n - 1)]]]

\* element of x at a 0-based multi-index, reading x with the shape given
At(x, shape, idx) == x.data[FlatIndex(shape, idx) + 1]

\* shapes of the operands: every shape of at most MaxRank axes and at most
\* MaxSize elements, no axis empty
RECURSIVE ShapesOfRank(_)
ShapesOfRank(r) ==
    IF r = 0 THEN {<<>>}
    ELSE {<<d>> \o s : d \in 1..MaxSize, s \in {t \in ShapesOfRank(r - 1) : TRUE}}

LShapes == {s \in UNION {ShapesOfRank(r) : r \in 0..MaxRank} : Size(s) <= MaxSize}

\* the elements an operand is filled with: fill 0 is the real ramp 1, 2, ...;
\* a higher fill is complex, with imaginary parts of alternating sign
Fill(k, n) ==
    [re |-> n - k, im |-> k * (IF n % 2 = 0 THEN 0 - 1 ELSE 1)]

Operand(shape, k) ==
    [dtype |-> IF k = 0 THEN "float64" ELSE "complex128",
     shape |-> shape,
     data |-> [n \in 1..Size(shape) |-> Fill(k, n)]]

LInputs == {Operand(sh, k) : sh \in LShapes, k \in 0..MaxFill}

(***************************************************************************)
(* Broadcasting of two shapes: right-aligned, a missing axis counts as 1.  *)
(***************************************************************************)
Max2(a, b) == IF a >= b THEN a ELSE b

\* shape s padded with leading 1s to n axes
PadLeft(s, n) == [i \in 1..n |-> IF i <= n - Len(s) THEN 1 ELSE s[i - (n - Len(s))]]

\* faulty check: only an axis of the left shape may have size 1
BroadcastCompatibleLeft(a, b) ==
    LET n == Max2(Len(a), Len(b))
        pa == PadLeft(a, n)
        pb == PadLeft(b, n)
    IN \A i \in 1..n : pa[i] = pb[i] \/ pa[i] = 1

BroadcastCompatible(a, b) ==
    LET n == Max2(Len(a), Len(b))
        pa == PadLeft(a, n)
        pb == PadLeft(b, n)
    IN \A i \in 1..n : pa[i] = pb[i] \/ pa[i] = 1 \/ pb[i] = 1

\* faulty broadcast: the axes of the left shape are kept as they are
BroadcastShapeLeft(a, b) == PadLeft(a, Max2(Len(a), Len(b)))

BroadcastShape(a, b) ==
    LET n == Max2(Len(a), Len(b))
        pa == PadLeft(a, n)
        pb == PadLeft(b, n)
    IN [i \in 1..n |-> IF pa[i] = 1 THEN pb[i] ELSE pa[i]]

\* the index into an operand with batch shape s of the broadcast batch index b
BatchIndex(s, b) ==
    [i \in 1..Len(s) |-> IF s[i] = 1 THEN 0 ELSE b[Len(b) - Len(s) + i]]

\* a failed call: the kind of the error and nothing else
Err(kind) == [kind |-> "error", err |-> kind]

\* the broadcast of two shapes, or the failure on an incompatible pair
broadcast(a, b) ==
    IF ~BroadcastCompatible(a, b) THEN Err("BroadcastError")
    ELSE [kind |-> "ok", shape |-> BroadcastShape(a, b)]

\* the shapes broadcast is tried on: at most MaxRank axes, empty axes
\* included, the sizes adding up to at most MaxSize + 1
RECURSIVE ShapesUpTo(_, _)
ShapesUpTo(r, budget) ==
    IF r = 0 THEN {<<>>}
    ELSE UNION {{<<d>> \o s : s \in ShapesUpTo(r - 1, budget - d)} :
                   d \in 0..(IF budget <= MaxSize THEN budget ELSE MaxSize)}

BShapes == UNION {ShapesUpTo(r, MaxSize + 1) : r \in 0..MaxRank}

(***************************************************************************)
(* matmul.                                                                 *)
(***************************************************************************)
\* vector-to-matrix promotion: (M,) becomes (1, M) on the left, (N,) becomes
\* (N, 1) on the right
PromoteLeft(shape) == IF Len(shape) = 1 THEN <<1>> \o shape ELSE shape
PromoteRight(shape) == IF Len(shape) = 1 THEN shape \o <<1>> ELSE shape

\* the axes of a stack of matrices before the last two
BatchShape(p) == Slice(p, 1, Len(p) - 2)

\* faulty check: a contracted axis of size 1 on the left is stretched
ContractionMismatchBroadcasting(p1, p2) ==
    /\ p1[Len(p1)] # p2[Len(p2) - 1]
    /\ p1[Len(p1)] # 1

\* last axis of the left operand against the second-to-last of the right
ContractionMismatch(p1, p2) == p1[Len(p1)] # p2[Len(p2) - 1]

\* faulty product: the left operand is conjugated
MatrixProductConjugated(x1v, x2v, p1, p2) ==
    LET batch == BroadcastShape(BatchShape(p1), BatchShape(p2))
        nb == Len(batch)
        K == p1[Len(p1)]
        full == batch \o <<p1[Len(p1) - 1], p2[Len(p2)]>>
    IN FromFunction(full,
         [idx \in MultiIndices(full) |->
            LET b == Slice(idx, 1, nb)
                b1 == BatchIndex(BatchShape(p1), b)
                b2 == BatchIndex(BatchShape(p2), b)
            IN CSum([k \in 0..(K - 1) |->
                       CMul(Conj(At(x1v, p1, b1 \o <<idx[nb + 1], k>>)),
                            At(x2v, p2, b2 \o <<k, idx[nb + 2]>>))], K)])

\* the stack of conventional matrix products of the promoted operands: at
\* batch index b, row m, column n the sum over k of x1[b, m, k] * x2[b, k, n]
MatrixProduct(x1v, x2v, p1, p2) ==
    LET batch == BroadcastShape(BatchShape(p1), BatchShape(p2))
        nb == Len(batch)
        K == p1[Len(p1)]
        full == batch \o <<p1[Len(p1) - 1], p2[Len(p2)]>>
    IN FromFunction(full,
         [idx \in MultiIndices(full) |->
            LET b == Slice(idx, 1, nb)
                b1 == BatchIndex(BatchShape(p1), b)
                b2 == BatchIndex(BatchShape(p2), b)
            IN CSum([k \in 0..(K - 1) |->
                       CMul(At(x1v, p1, b1 \o <<idx[nb + 1], k>>),
                            At(x2v, p2, b2 \o <<k, idx[nb + 2]>>))], K)])

\* faulty removal: the axes inserted by the promotion stay in the result
RemovePromotedKept(shape, r1, r2) == shape

\* the shape of the product without the axes the promotion inserted: the row
\* axis when x1 was a vector, the column axis when x2 was
RemovePromoted(shape, r1, r2) ==
    LET n == Len(shape)
        batch == Slice(shape, 1, n - 2)
    IN batch \o (IF r1 = 1 THEN <<>> ELSE <<shape[n - 1]>>)
             \o (IF r2 = 1 THEN <<>> ELSE <<shape[n]>>)

matmul(x1v, x2v) ==
    IF Rank(x1v) = 0 \/ Rank(x2v) = 0 THEN Err("ShapeMismatchError")
    ELSE LET p1 == PromoteLeft(x1v.shape)
             p2 == PromoteRight(x2v.shape)
         IN IF ContractionMismatch(p1, p2) THEN Err("ShapeMismatchError")
            ELSE IF ~BroadcastCompatible(BatchShape(p1), BatchShape(p2))
            THEN Err("BroadcastError")
            ELSE LET prod == MatrixProduct(x1v, x2v, p1, p2)
                 IN [kind |-> "ok",
                     shape |-> RemovePromoted(prod.shape, Rank(x1v), Rank(x2v)),
                     data |-> prod.data]

(***************************************************************************)
(* Axis indices.                                                           *)
(***************************************************************************)
\* a valid axis of an array of this rank lies in [-rank, rank)
ValidAxis(axis, rank) == 0 - rank <= axis /\ axis < rank

\* faulty normalization: a negative axis is returned as it is
normalize_axisUnchanged(axis, rank) == axis

\* a negative axis counts backward from the last axis
normalize_axis(axis, rank) == IF axis < 0 THEN axis + rank ELSE axis

Range(f) == {f[i] : i \in DOMAIN f}

\* the axis of an array of this rank an index names, or the failure on an
\* invalid index
checked_axis(axis, rank) ==
    IF ~ValidAxis(axis, rank) THEN Err("InvalidAxisError")
    ELSE [kind |-> "ok", axis |-> normalize_axis(axis, rank)]

(***************************************************************************)
(* tensordot.  The argument axes is either an integer N or a pair of axis  *)
(* sequences: [int |-> TRUE, n |-> N] or [int |-> FALSE, a1 |-> .., a2 ..]. *)
(***************************************************************************)
IntAxes(n) == [int |-> TRUE, n |-> n, a1 |-> <<>>, a2 |-> <<>>]
SeqAxes(a1, a2) == [int |-> FALSE, n |-> 0, a1 |-> a1, a2 |-> a2]

\* faulty pairing: the first N axes of x1 are contracted instead of the last N
LastAxesFirst(rank, n) == [i \in 1..n |-> i - 1]

\* the last n axes of an array of this rank, in order (0-based)
LastAxes(rank, n) == [i \in 1..n |-> rank - n + i - 1]

\* the first n axes, in order (0-based)
FirstAxes(n) == [i \in 1..n |-> i - 1]

\* the axes of an array of this rank that are not contracted, in original order
FreeAxes(rank, contracted) ==
    SelectSeq([i \in 1..rank |-> i - 1], LAMBDA a : a \notin Range(contracted))

\* position of axis a in the sequence of axes s
PosIn(s, a) == CHOOSE k \in 1..Len(s) : s[k] = a

\* the result shape: the free axes of x1, then the free axes of x2
ContractedShape(sh1, sh2, a1, a2) ==
    LET f1 == FreeAxes(Len(sh1), a1)
        f2 == FreeAxes(Len(sh2), a2)
    IN [i \in 1..Len(f1) |-> sh1[f1[i] + 1]] \o [i \in 1..Len(f2) |-> sh2[f2[i] + 1]]

\* faulty contraction: the elements of x1 are conjugated, as vecdot does
ContractConjugated(x1v, x2v, a1, a2) ==
    LET r1 == Rank(x1v)
        r2 == Rank(x2v)
        f1 == FreeAxes(r1, a1)
        f2 == FreeAxes(r2, a2)
        csh == [k \in 1..Len(a1) |-> x1v.shape[a1[k] + 1]]
        osh == ContractedShape(x1v.shape, x2v.shape, a1, a2)
    IN FromFunction(osh,
         [idx \in MultiIndices(osh) |->
            CSumOver(
              [c \in MultiIndices(csh) |->
                 CMul(Conj(At(x1v, x1v.shape,
                         [i \in 1..r1 |-> IF (i - 1) \in Range(a1)
                                          THEN c[PosIn(a1, i - 1)]
                                          ELSE idx[PosIn(f1, i - 1)]])),
                      At(x2v, x2v.shape,
                         [i \in 1..r2 |-> IF (i - 1) \in Range(a2)
                                          THEN c[PosIn(a2, i - 1)]
                                          ELSE idx[Len(f1) + PosIn(f2, i - 1)]]))],
              MultiIndices(csh))])

\* the contraction of x1 over the axes a1 with x2 over the axes a2 (0-based,
\* normalized, pairwise of equal size): the sum over the contracted indices
\* of the products of the elements
Contract(x1v, x2v, a1, a2) ==
    LET r1 == Rank(x1v)
        r2 == Rank(x2v)
        f1 == FreeAxes(r1, a1)
        f2 == FreeAxes(r2, a2)
        csh == [k \in 1..Len(a1) |-> x1v.shape[a1[k] + 1]]
        osh == ContractedShape(x1v.shape, x2v.shape, a1, a2)
    IN FromFunction(osh,
         [idx \in MultiIndices(osh) |->
            CSumOver(
              [c \in MultiIndices(csh) |->
                 CMul(At(x1v, x1v.shape,
                         [i \in 1..r1 |-> IF (i - 1) \in Range(a1)
                                          THEN c[PosIn(a1, i - 1)]
                                          ELSE idx[PosIn(f1, i - 1)]]),
                      At(x2v, x2v.shape,
                         [i \in 1..r2 |-> IF (i - 1) \in Range(a2)
                                          THEN c[PosIn(a2, i - 1)]
                                          ELSE idx[Len(f1) + PosIn(f2, i - 1)]]))],
              MultiIndices(csh))])

\* some contracted pair of axes differs in size
SizeMismatch(sh1, sh2, a1, a2) ==
    \E k \in 1..Len(a1) : sh1[a1[k] + 1] # sh2[a2[k] + 1]

\* faulty check: a repeated axis is accepted
HasDuplicateIgnored(a) == FALSE

\* two entries of the sequence name one axis
HasDuplicate(a) == \E i, j \in 1..Len(a) : i # j /\ a[i] = a[j]

tensordot(x1v, x2v, ax) ==
    LET r1 == Rank(x1v)
        r2 == Rank(x2v)
    IN IF ~ax.int /\ Len(ax.a1) # Len(ax.a2) THEN Err("Exception")
       ELSE IF ~ax.int /\ ( \/ \E i \in 1..Len(ax.a1) : ~ValidAxis(ax.a1[i], r1)
                            \/ \E i \in 1..Len(ax.a2) : ~ValidAxis(ax.a2[i], r2) )
       THEN Err("InvalidAxisError")
       ELSE LET a1 == IF ax.int THEN LastAxes(r1, ax.n)
                      ELSE [i \in 1..Len(ax.a1) |-> normalize_axis(ax.a1[i], r1)]
                a2 == IF ax.int THEN FirstAxes(ax.n)
                      ELSE [i \in 1..Len(ax.a2) |-> normalize_axis(ax.a2[i], r2)]
            IN IF HasDuplicate(a1) \/ HasDuplicate(a2) THEN Err("DuplicateAxisError")
               ELSE IF SizeMismatch(x1v.shape, x2v.shape, a1, a2)
               THEN Err("ShapeMismatchError")
               ELSE LET c == Contract(x1v, x2v, a1, a2)
                    IN [kind |-> "ok", shape |-> c.shape, data |-> c.data]

\* operands of the calls with explicit axis sequences: one or two axes of
\* size 1 or 2
AShapes == {s \in LShapes : Len(s) \in 1..2 /\ \A i \in 1..Len(s) : s[i] <= 2}

\* the axis sequences tried on an operand of this rank: up to rank entries,
\* each a valid axis or the first invalid one on either side
AxisSeqs(rank) ==
    UNION {[1..n -> (0 - rank - 1)..rank] : n \in 0..rank}

(***************************************************************************)
(* vecdot.  The argument axis is a negative integer, counted backward from *)
(* the last axis of each operand; it is recorded as [int |-> TRUE, n |->   *)
(* axis].                                                                  *)
(***************************************************************************)
AxisArg(axis) == [int |-> TRUE, n |-> axis, a1 |-> <<>>, a2 |-> <<>>]

\* a shape without its k-th axis, and a multi-index with i put at position k
\* (k is 1-based)
WithoutAxis(shape, k) == Slice(shape, 1, k - 1) \o Slice(shape, k + 1, Len(shape))
InsertAt(idx, k, i) == Slice(idx, 1, k - 1) \o <<i>> \o Slice(idx, k, Len(idx))

\* faulty check: a contracted axis of size 1 in x1 is stretched
VecdotSizeMismatchBroadcasting(sh1, sh2, k1, k2) ==
    /\ sh1[k1] # sh2[k2]
    /\ sh1[k1] # 1

\* the contracted axis differs in size between the operands
VecdotSizeMismatch(sh1, sh2, k1, k2) == sh1[k1] # sh2[k2]

\* faulty dot product: the second operand is conjugated instead of the first
VectorDotConjugatedSecond(x1v, x2v, k1, k2) ==
    LET f1 == WithoutAxis(x1v.shape, k1)
        f2 == WithoutAxis(x2v.shape, k2)
        osh == BroadcastShape(f1, f2)
        n == x1v.shape[k1]
    IN FromFunction(osh,
         [idx \in MultiIndices(osh) |->
            CSum([i \in 0..(n - 1) |->
                    CMul(At(x1v, x1v.shape, InsertAt(BatchIndex(f1, idx), k1, i)),
                         Conj(At(x2v, x2v.shape, InsertAt(BatchIndex(f2, idx), k2, i))))],
                 n)])

\* the dot products of the vectors along axis k1 of x1 and axis k2 of x2, the
\* other axes broadcast: each is the sum of conj(a_i) * b_i
VectorDot(x1v, x2v, k1, k2) ==
    LET f1 == WithoutAxis(x1v.shape, k1)
        f2 == WithoutAxis(x2v.shape, k2)
        osh == BroadcastShape(f1, f2)
        n == x1v.shape[k1]
    IN FromFunction(osh,
         [idx \in MultiIndices(osh) |->
            CSum([i \in 0..(n - 1) |->
                    CMul(Conj(At(x1v, x1v.shape, InsertAt(BatchIndex(f1, idx), k1, i))),
                         At(x2v, x2v.shape, InsertAt(BatchIndex(f2, idx), k2, i)))],
                 n)])

\* faulty result shape: the contracted axis is kept with size 1
DropContractedKept(bshape, axis) ==
    [i \in 1..Len(bshape) |-> IF i = Len(bshape) + axis + 1 THEN 1 ELSE bshape[i]]

\* the broadcast shape of the operands without the contracted axis
DropContracted(bshape, axis) == WithoutAxis(bshape, Len(bshape) + axis + 1)

\* an axis outside [-N, -1], N the smaller rank, names no axis of both
\* operands; the contracted sizes are compared before any broadcasting
vecdot(x1v, x2v, axis) ==
    LET r1 == Rank(x1v)
        r2 == Rank(x2v)
        N == IF r1 <= r2 THEN r1 ELSE r2
    IN IF ~(axis < 0 /\ ValidAxis(axis, N)) THEN Err("InvalidAxisError")
       ELSE LET k1 == r1 + axis + 1
                k2 == r2 + axis + 1
            IN IF VecdotSizeMismatch(x1v.shape, x2v.shape, k1, k2)
               THEN Err("ShapeMismatchError")
               ELSE IF ~BroadcastCompatible(x1v.shape, x2v.shape) THEN Err("BroadcastError")
               ELSE [kind |-> "ok",
                     shape |-> DropContracted(BroadcastShape(x1v.shape, x2v.shape), axis),
                     data |-> VectorDot(x1v, x2v, k1, k2).data]

(***************************************************************************)
(* A call of matmul, tensordot or vecdot step by step.  The checks of the  *)
(* operands are made one after the other; the first that fails ends the    *)
(* call with its error.  When all have passed, the elements of the result  *)
(* are computed into a buffer by two workers, each computing its tile,     *)
(* one half of the result, in either order; the buffer is returned when it *)
(* is full.                                                                *)
(***************************************************************************)
NumChecks(o) == IF o = "tensordot" THEN 4 ELSE 3

\* the error of the k-th check of function o, "none" when the check passes;
\* a check relies on those before it having passed
CheckMatmul(k, a, b) ==
    LET p1 == PromoteLeft(a.shape)
        p2 == PromoteRight(b.shape)
    IN CASE k = 1 -> IF Rank(a) = 0 \/ Rank(b) = 0 THEN "ShapeMismatchError" ELSE "none"
         [] k = 2 -> IF ContractionMismatch(p1, p2) THEN "ShapeMismatchError" ELSE "none"
         [] k = 3 -> IF ~BroadcastCompatible(BatchShape(p1), BatchShape(p2))
                     THEN "BroadcastError" ELSE "none"

CheckTensordot(k, a, b, ax) ==
    LET r1 == Rank(a)
        r2 == Rank(b)
        a1 == IF ax.int THEN LastAxes(r1, ax.n)
              ELSE [i \in 1..Len(ax.a1) |-> normalize_axis(ax.a1[i], r1)]
        a2 == IF ax.int THEN FirstAxes(ax.n)
              ELSE [i \in 1..Len(ax.a2) |-> normalize_axis(ax.a2[i], r2)]
    IN CASE k = 1 -> IF ~ax.int /\ Len(ax.a1) # Len(ax.a2) THEN "Exception" ELSE "none"
         [] k = 2 -> IF ~ax.int /\ ( \/ \E i \in 1..Len(ax.a1) : ~ValidAxis(ax.a1[i], r1)
                                     \/ \E i \in 1..Len(ax.a2) : ~ValidAxis(ax.a2[i], r2) )
                     THEN "InvalidAxisError" ELSE "none"
         [] k = 3 -> IF HasDuplicate(a1) \/ HasDuplicate(a2)
                     THEN "DuplicateAxisError" ELSE "none"
         [] k = 4 -> IF SizeMismatch(a.shape, b.shape, a1, a2)
                     THEN "ShapeMismatchError" ELSE "none"

CheckVecdot(k, a, b, axis) ==
    LET r1 == Rank(a)
        r2 == Rank(b)
        N == IF r1 <= r2 THEN r1 ELSE r2
    IN CASE k = 1 -> IF ~(axis < 0 /\ ValidAxis(axis, N)) THEN "InvalidAxisError" ELSE "none"
         [] k = 2 -> IF VecdotSizeMismatch(a.shape, b.shape, r1 + axis + 1, r2 + axis + 1)
                     THEN "ShapeMismatchError" ELSE "none"
         [] k = 3 -> IF ~BroadcastCompatible(a.shape, b.shape)
                     THEN "BroadcastError" ELSE "none"

Check(o, k, a, b, ax) ==
    CASE o = "matmul" -> CheckMatmul(k, a, b)
      [] o = "tensordot" -> CheckTensordot(k, a, b, ax)
      [] o = "vecdot" -> CheckVecdot(k, a, b, ax.n)

\* faulty order: the computation starts while the last check is still to be
\* made
ValidationCompleteButLast(o, passed) == passed >= NumChecks(o) - 1

\* every check of function o has passed
ValidationComplete(o, passed) == passed = NumChecks(o)

\* the array that function o gives for operands that passed every check
Product(o, a, b, ax) ==
    CASE o = "matmul" -> matmul(a, b)
      [] o = "tensordot" -> tensordot(a, b, ax)
      [] o = "vecdot" -> vecdot(a, b, ax.n)

\* the worker an element of a result of n elements belongs to: the first
\* half is the first worker's
WorkerOf(i, n) == IF 2 * i <= n THEN 1 ELSE 2

\* the tile of a worker: its half of the elements of the result
TileOf(w, n) == {i \in 1..n : WorkerOf(i, n) = w}

\* shapes of the operands of the calls followed step by step
WShapes == {s \in LShapes : Size(s) <= MaxWork}

(***************************************************************************)
(* Data types and their promotion.  A data type is a kind and a width in   *)
(* bits; the promotion table is keyed by these pairs.  A complex number is *)
(* two floats of half its width.                                           *)
(***************************************************************************)
\* the kinds, lowest first
Kinds == <<"bool", "int", "float", "complex">>

KindRank(k) == CHOOSE i \in 1..Len(Kinds) : Kinds[i] = k

DType(k, w) == [kind |-> k, width |-> w]

Widths(k) ==
    CASE k = "bool" -> {8}
      [] k = "int" -> {8, 16, 32, 64}
      [] k = "float" -> {32, 64}
      [] k = "complex" -> {64, 128}

DTypes == UNION {{DType(Kinds[i], w) : w \in Widths(Kinds[i])} : i \in 1..Len(Kinds)}

\* the width of the numbers a data type holds: of each component of a complex
Precision(d) == IF d.kind = "complex" THEN d.width \div 2 ELSE d.width

HigherKind(a, b) == IF KindRank(a.kind) >= KindRank(b.kind) THEN a.kind ELSE b.kind

\* faulty entry: across kinds the width follows the first input
PromoteFirstWidth(a, b) ==
    LET k == HigherKind(a, b)
        p == IF a.kind = b.kind THEN Max2(Precision(a), Precision(b))
             ELSE IF k \in {"float", "complex"} THEN Max2(Precision(a), 32)
             ELSE Precision(a)
    IN DType(k, IF k = "complex" THEN 2 * p ELSE p)

\* faulty entry: within one kind the narrower input is picked
PromoteNarrower(a, b) ==
    LET k == HigherKind(a, b)
        p == IF a.kind = b.kind
             THEN (IF Precision(a) <= Precision(b) THEN Precision(a) ELSE Precision(b))
             ELSE Max2(Precision(a), Precision(b))
    IN DType(k, IF k = "complex" THEN 2 * p ELSE p)

\* the entry of the table for two data types: the higher kind, wide enough
\* for the numbers of both
Promote(a, b) ==
    LET k == HigherKind(a, b)
        p == Max2(Precision(a), Precision(b))
    IN DType(k, IF k = "complex" THEN 2 * p ELSE p)

\* the precomputed lookup
PromotionTable == [a \in DTypes, b \in DTypes |-> Promote(a, b)]

\* the promotion of one or more data types, looked up from left to right
RECURSIVE resolve(_)
resolve(ds) ==
    IF Len(ds) = 1 THEN ds[1]
    ELSE PromotionTable[resolve(Slice(ds, 1, Len(ds) - 1)), ds[Len(ds)]]

\* the positional arguments of a call, as a list
ArgList(s) == [shape |-> <<Len(s)>>, data |-> s]

\* the argument lists of resolve: one to MaxLen data types
DTypeLists == UNION {[1..n -> DTypes] : n \in 1..MaxLen}

(***************************************************************************)
(* Creation functions called without a dtype.  A Python scalar is a kind   *)
(* (bool, int, float or complex) and a value; values are counted in halves *)
(* (re and im), so that a float may be fractional and a bool or an int is  *)
(* an even number of halves.  The default data types are named, not        *)
(* chosen: which widths they have is left to the implementation.           *)
(***************************************************************************)
Scalar(k, re, im) == [kind |-> k, re |-> re, im |-> im]

\* the absent optional argument
None == [kind |-> "none", re |-> 0, im |-> 0]

BoolDType == "bool"
DefaultInteger == "default integer"
DefaultFloat == "default real floating-point"
DefaultComplex == "default complex floating-point"

\* the scalars of the objects converted and of the fill values: of each kind
\* the values 0 and 1 (False and True; 0 and 1+1j for complex)
OScalars ==
    {Scalar(k, 2 * v, IF k = "complex" THEN 2 * v ELSE 0) :
        k \in {"bool", "int", "float", "complex"}, v \in 0..1}

\* the objects converted by asarray: a scalar, or a sequence of one to MaxLen
\* scalars
Objects ==
    {[shape |-> <<>>, data |-> <<v>>] : v \in OScalars}
       \cup UNION {{ArgList(s) : s \in [1..n -> OScalars]} : n \in 1..MaxLen}

\* the numbers given to arange: the integers and the multiples of one half
\* in -MaxValue..MaxValue
Numbers ==
    {Scalar("int", 2 * v, 0) : v \in (0 - MaxValue)..MaxValue}
       \cup {Scalar("float", h, 0) : h \in (0 - 2 * MaxValue)..(2 * MaxValue)}

KindsOf(vals) == {vals[i].kind : i \in 1..Len(vals)}

\* faulty inference: a float is looked for before a complex number
asarray_dtypeFloatFirst(vals) ==
    LET ks == KindsOf(vals)
    IN IF ks = {"bool"} THEN BoolDType
       ELSE IF ks \subseteq {"bool", "int"} THEN DefaultInteger
       ELSE IF "float" \in ks THEN DefaultFloat
       ELSE DefaultComplex

\* the data type asarray infers from Python scalars, in order of precedence
asarray_dtype(vals) ==
    LET ks == KindsOf(vals)
    IN IF ks = {"bool"} THEN BoolDType
       ELSE IF ks \subseteq {"bool", "int"} THEN DefaultInteger
       ELSE IF "complex" \in ks THEN DefaultComplex
       ELSE DefaultFloat

\* an array holding the data of the object
asarray(obj) ==
    [kind |-> "ok",
     dtype |-> asarray_dtype(obj.data),
     shape |-> obj.shape,
     data |-> [i \in 1..Len(obj.data) |-> [re |-> obj.data[i].re, im |-> obj.data[i].im]]]

\* the data type full infers from the fill value
full_dtype(fill) ==
    CASE fill.kind = "int" -> DefaultInteger
      [] fill.kind = "float" -> DefaultFloat
      [] fill.kind = "complex" -> DefaultComplex
      [] fill.kind = "bool" -> BoolDType

\* an array of the shape given, every element the fill value
full(shape, fill) ==
    [kind |-> "ok",
     dtype |-> full_dtype(fill),
     shape |-> shape,
     data |-> [i \in 1..Size(shape) |-> [re |-> fill.re, im |-> fill.im]]]

\* the data type arange infers from start, stop and step
arange_dtype(args) ==
    IF KindsOf(args) \subseteq {"int", "none"} THEN DefaultInteger ELSE DefaultFloat

\* the least integer not below a / b, for b # 0
Ceil(a, b) == IF b < 0 THEN 0 - (a \div (0 - b)) ELSE 0 - ((0 - a) \div b)

Sign(a) == IF a > 0 THEN 1 ELSE IF a < 0 THEN 0 - 1 ELSE 0

\* the number of elements of arange: ceil((stop - start) / step) when
\* stop - start and step have the same sign, 0 otherwise
\* faulty length: the interval is taken closed, stop is counted in
arange_lengthInclusive(start, stop, step) ==
    IF Sign(stop - start) = Sign(step) /\ Sign(step) # 0
    THEN Ceil(stop - start + Sign(step), step)
    ELSE 0

arange_length(start, stop, step) ==
    IF Sign(stop - start) = Sign(step) /\ Sign(step) # 0
    THEN Ceil(stop - start, step)
    ELSE 0

\* with stop absent the interval is [0, start)
arange(start, stop, step) ==
    LET first == IF stop = None THEN 0 ELSE start.re
        last == IF stop = None THEN start.re ELSE stop.re
        n == arange_length(first, last, step.re)
    IN [kind |-> "ok",
        dtype |-> arange_dtype(<<start, stop, step>>),
        shape |-> <<n>>,
        data |-> [i \in 1..n |-> [re |-> first + (i - 1) * step.re, im |-> 0]]]

(***************************************************************************)
(* sort and argsort.  The elements are real scalars without NaN; -0 and +0 *)
(* compare equal and are told apart in the result.  The arguments are      *)
(* recorded as the axis with the two flags.                                *)
(***************************************************************************)
SortArgs(axis, descending, stable) ==
    [int |-> TRUE, n |-> axis, a1 |-> <<>>, a2 |-> <<>>,
     descending |-> descending, stable |-> stable]

MinusOne == FNum(TRUE, 1)

\* the number a scalar stands for
Num(a) == IF a.neg THEN 0 - a.mag ELSE a.mag

\* a comes strictly before b in the requested direction
Before(a, b, descending) == IF descending THEN Num(a) > Num(b) ELSE Num(a) < Num(b)

SElems == {MinusOne, NegZero, PosZero}

\* the arrays sorted: at most two axes and MaxLen elements, and the matrices
\* of two rows and two columns
SShapes == {s \in LShapes : Len(s) <= 2 /\ Size(s) <= MaxLen} \cup {<<2, 2>>}

SInputs ==
    UNION {{[dtype |-> "float64", shape |-> sh, data |-> d] : d \in [1..Size(sh) -> SElems]} :
              sh \in SShapes}

\* the vector of x along axis k (1-based) at the index b of the other axes
SliceOf(x, k, b) ==
    [i \in 1..x.shape[k] |-> At(x, x.shape, InsertAt(b, k, i - 1))]

\* the orders a vector may be put in: p[j] is the position of the element
\* placed j-th; the elements are ordered by value in the direction asked for
\* and, for a stable sort, equal elements keep their order
Ordered(v, p, descending, stable) ==
    \A i, j \in 1..Len(v) :
       i < j => /\ ~Before(v[p[j]], v[p[i]], descending)
                /\ (stable /\ Num(v[p[i]]) = Num(v[p[j]])) => p[i] < p[j]

\* faulty order: a descending sort is the ascending sort reversed
SlicePermsReversed(v, descending, stable) ==
    LET asc == {p \in Perms(1..Len(v)) : Ordered(v, p, FALSE, stable)}
    IN IF descending THEN {[j \in 1..Len(v) |-> p[Len(v) + 1 - j]] : p \in asc}
       ELSE asc

SlicePerms(v, descending, stable) ==
    {p \in Perms(1..Len(v)) : Ordered(v, p, descending, stable)}

\* faulty choice: the order of one vector is used for all of them
OrderingsShared(x, k, descending, stable) ==
    LET B == MultiIndices(WithoutAxis(x.shape, k))
        b0 == CHOOSE b \in B : TRUE
    IN {f \in [B -> Perms(1..x.shape[k])] :
          /\ f[b0] \in SlicePerms(SliceOf(x, k, b0), descending, stable)
          /\ \A b \in B : f[b] = f[b0]}

\* an order for every vector along the axis, each chosen on its own
Orderings(x, k, descending, stable) ==
    LET B == MultiIndices(WithoutAxis(x.shape, k))
    IN {f \in [B -> Perms(1..x.shape[k])] :
          \A b \in B : f[b] \in SlicePerms(SliceOf(x, k, b), descending, stable)}

\* the sorted copy of x: same data type and shape
sort(x, axis, ord) ==
    LET ca == checked_axis(axis, Rank(x))
    IN IF ca.kind = "error" THEN ca
       ELSE LET k == ca.axis + 1
            IN [kind |-> "ok",
                dtype |-> x.dtype,
                shape |-> x.shape,
                data |-> FromFunction(x.shape,
                           [idx \in MultiIndices(x.shape) |->
                              LET b == WithoutAxis(idx, k)
                              IN SliceOf(x, k, b)[ord[b][idx[k] + 1]]]).data]

\* faulty indices: the place each element goes to, not the element that goes
\* to each place
argsortPlaces(x, axis, ord) ==
    LET ca == checked_axis(axis, Rank(x))
    IN IF ca.kind = "error" THEN ca
       ELSE LET k == ca.axis + 1
            IN [kind |-> "ok",
                dtype |-> "default index",
                shape |-> x.shape,
                data |-> FromFunction(x.shape,
                           [idx \in MultiIndices(x.shape) |->
                              LET p == ord[WithoutAxis(idx, k)]
                              IN (CHOOSE j \in 1..Len(p) : p[j] = idx[k] + 1) - 1]).data]

\* the indices (0-based, along the axis) that sort x: same shape
argsort(x, axis, ord) ==
    LET ca == checked_axis(axis, Rank(x))
    IN IF ca.kind = "error" THEN ca
       ELSE LET k == ca.axis + 1
            IN [kind |-> "ok",
                dtype |-> "default index",
                shape |-> x.shape,
                data |-> FromFunction(x.shape,
                           [idx \in MultiIndices(x.shape) |->
                              ord[WithoutAxis(idx, k)][idx[k] + 1] - 1]).data]

\* the orders a call chooses among: none is needed for an invalid axis
CallOrderings(x, axis, descending, stable) ==
    IF ValidAxis(axis, Rank(x))
    THEN Orderings(x, normalize_axis(axis, Rank(x)) + 1, descending, stable)
    ELSE {<<>>}

(***************************************************************************)
(* The calls.                                                              *)
(***************************************************************************)
Init ==
    /\ pc = "idle"
    /\ op = "none"
    /\ x1 = NoArray
    /\ x2 = NoArray
    /\ axes = NoAxes
    /\ out = NoOut
    /\ tables = NoTables
    /\ work = NoWork

UniqueAll ==
    /\ pc = "idle"
    /\ \E x \in UInputs :
          LET grp == Grouping(x.data) IN
          \E ord \in Perms(Firsts(grp)) : \E vals \in Reps(x.data, grp, ord) :
             /\ x1' = x
             /\ out' = unique_all(x, grp, ord, vals)
    /\ op' = "unique_all"
    /\ pc' = "done"
    /\ UNCHANGED <<x2, axes, tables>>
    /\ UNCHANGED work

UniqueCounts ==
    /\ pc = "idle"
    /\ \E x \in UInputs :
          LET grp == Grouping(x.data) IN
          \E ord \in Perms(Firsts(grp)) : \E vals \in Reps(x.data, grp, ord) :
             /\ x1' = x
             /\ out' = unique_counts(x, grp, ord, vals)
    /\ op' = "unique_counts"
    /\ pc' = "done"
    /\ UNCHANGED <<x2, axes, tables>>
    /\ UNCHANGED work

UniqueInverse ==
    /\ pc = "idle"
    /\ \E x \in UInputs :
          LET grp == Grouping(x.data) IN
          \E ord \in Perms(Firsts(grp)) : \E vals \in Reps(x.data, grp, ord) :
             /\ x1' = x
             /\ out' = unique_inverse(x, grp, ord, vals)
    /\ op' = "unique_inverse"
    /\ pc' = "done"
    /\ UNCHANGED <<x2, axes, tables>>
    /\ UNCHANGED work

UniqueValues ==
    /\ pc = "idle"
    /\ \E x \in UInputs :
          LET grp == Grouping(x.data) IN
          \E ord \in Perms(Firsts(grp)) : \E vals \in Reps(x.data, grp, ord) :
             /\ x1' = x
             /\ out' = unique_values(x, grp, ord, vals)
    /\ op' = "unique_values"
    /\ pc' = "done"
    /\ UNCHANGED <<x2, axes, tables>>
    /\ UNCHANGED work

Matmul ==
    /\ pc = "idle"
    /\ \E a \in LInputs, b \in LInputs :
          /\ x1' = a
          /\ x2' = b
          /\ out' = matmul(a, b)
    /\ op' = "matmul"
    /\ pc' = "done"
    /\ UNCHANGED <<axes, tables>>
    /\ UNCHANGED work

\* tensordot with an integer axes = N, N at most the rank of either operand
TensordotInt ==
    /\ pc = "idle"
    /\ \E a \in LInputs, b \in LInputs :
          \E n \in 0..(IF Rank(a) <= Rank(b) THEN Rank(a) ELSE Rank(b)) :
             /\ x1' = a
             /\ x2' = b
             /\ axes' = IntAxes(n)
             /\ out' = tensordot(a, b, IntAxes(n))
    /\ op' = "tensordot"
    /\ pc' = "done"
    /\ UNCHANGED tables
    /\ UNCHANGED work

\* tensordot with explicit axis sequences (x1_axes, x2_axes)
TensordotAxes ==
    /\ pc = "idle"
    /\ \E sa \in AShapes, sb \in AShapes :
          \E a1 \in AxisSeqs(Len(sa)), a2 \in AxisSeqs(Len(sb)) :
             /\ x1' = Operand(sa, 0)
             /\ x2' = Operand(sb, MaxFill)
             /\ axes' = SeqAxes(a1, a2)
             /\ out' = tensordot(Operand(sa, 0), Operand(sb, MaxFill), SeqAxes(a1, a2))
    /\ op' = "tensordot"
    /\ pc' = "done"
    /\ UNCHANGED tables
    /\ UNCHANGED work

\* vecdot with a negative axis: every axis of both operands counted from the
\* last, and the first index below them
Vecdot ==
    /\ pc = "idle"
    /\ \E a \in LInputs, b \in LInputs :
          \E axis \in (0 - (IF Rank(a) <= Rank(b) THEN Rank(a) ELSE Rank(b)) - 1)..(0 - 1) :
             /\ x1' = a
             /\ x2' = b
             /\ axes' = AxisArg(axis)
             /\ out' = vecdot(a, b, axis)
    /\ op' = "vecdot"
    /\ pc' = "done"
    /\ UNCHANGED tables
    /\ UNCHANGED work

\* the shapes of two arrays are broadcast
Broadcast ==
    /\ pc = "idle"
    /\ \E a \in BShapes, b \in BShapes :
          /\ x1' = Operand(a, 0)
          /\ x2' = Operand(b, 0)
          /\ out' = broadcast(a, b)
    /\ op' = "broadcast"
    /\ pc' = "done"
    /\ UNCHANGED <<axes, tables>>
    /\ UNCHANGED work

\* an axis argument is resolved against an array: every valid index and the
\* nearest invalid ones on either side
NormalizeAxis ==
    /\ pc = "idle"
    /\ \E a \in LInputs :
          \E axis \in (0 - Rank(a) - 2)..(Rank(a) + 1) :
             /\ x1' = a
             /\ axes' = AxisArg(axis)
             /\ out' = checked_axis(axis, Rank(a))
    /\ op' = "normalize_axis"
    /\ pc' = "done"
    /\ UNCHANGED <<x2, tables>>
    /\ UNCHANGED work

\* the data types of the operands of an operation are promoted
Resolve ==
    /\ pc = "idle"
    /\ \E ds \in DTypeLists :
          /\ x1' = ArgList(ds)
          /\ out' = [kind |-> "ok", dtype |-> resolve(ds)]
    /\ op' = "resolve"
    /\ pc' = "done"
    /\ UNCHANGED <<x2, axes, tables>>
    /\ UNCHANGED work

\* asarray of Python scalars, no dtype given
Asarray ==
    /\ pc = "idle"
    /\ \E obj \in Objects :
          /\ x1' = obj
          /\ out' = asarray(obj)
    /\ op' = "asarray"
    /\ pc' = "done"
    /\ UNCHANGED <<x2, axes, tables>>
    /\ UNCHANGED work

\* full, no dtype given: the shape asked for and the fill value
Full ==
    /\ pc = "idle"
    /\ \E sh \in LShapes, fill \in OScalars :
          /\ x1' = [shape |-> sh, data |-> <<fill>>]
          /\ out' = full(sh, fill)
    /\ op' = "full"
    /\ pc' = "done"
    /\ UNCHANGED <<x2, axes, tables>>
    /\ UNCHANGED work

\* arange, no dtype given: start, an optional stop and a step other than 0
Arange ==
    /\ pc = "idle"
    /\ \E start \in Numbers, stop \in Numbers \cup {None}, step \in Numbers :
          /\ step.re # 0
          /\ x1' = ArgList(<<start, stop, step>>)
          /\ out' = arange(start, stop, step)
    /\ op' = "arange"
    /\ pc' = "done"
    /\ UNCHANGED <<x2, axes, tables>>
    /\ UNCHANGED work

\* sort along every valid axis and the nearest invalid ones
Sort ==
    /\ pc = "idle"
    /\ \E x \in SInputs, descending \in BOOLEAN, stable \in BOOLEAN :
          \E axis \in (0 - Rank(x) - 1)..Rank(x) :
             \E ord \in CallOrderings(x, axis, descending, stable) :
                /\ x1' = x
                /\ axes' = SortArgs(axis, descending, stable)
                /\ out' = sort(x, axis, ord)
    /\ op' = "sort"
    /\ pc' = "done"
    /\ UNCHANGED <<x2, tables>>
    /\ UNCHANGED work

Argsort ==
    /\ pc = "idle"
    /\ \E x \in SInputs, descending \in BOOLEAN, stable \in BOOLEAN :
          \E axis \in (0 - Rank(x) - 1)..Rank(x) :
             \E ord \in CallOrderings(x, axis, descending, stable) :
                /\ x1' = x
                /\ axes' = SortArgs(axis, descending, stable)
                /\ out' = argsort(x, axis, ord)
    /\ op' = "argsort"
    /\ pc' = "done"
    /\ UNCHANGED <<x2, tables>>
    /\ UNCHANGED work

\* the caller takes the result; nothing persists across calls
\* unique_all on a partitioned input: the input is split and the workers start
Partition ==
    /\ pc = "idle"
    /\ \E x \in PInputs, parts \in 1..MaxParts :
          \E asg \in Assignments(Len(x.data), parts) :
             /\ x1' = x
             /\ tables' = [asg |-> asg,
                           scanned |-> [p \in 1..parts |-> 0],
                           part |-> [p \in 1..parts |-> <<>>],
                           merged |-> <<>>,
                           table |-> <<>>]
    /\ op' = "unique_all"
    /\ pc' = "build"
    /\ UNCHANGED <<x2, axes, out>>
    /\ UNCHANGED work

\* the worker of a partition places the next element of its partition
BuildTable ==
    /\ pc = "build"
    /\ \E p \in 1..Len(tables.part) :
          /\ tables.scanned[p] < Cardinality(PositionsOf(tables.asg, p))
          /\ tables' = [tables EXCEPT
                !.scanned[p] = @ + 1,
                !.part[p] = Placed(@, tables.scanned[p] + 1, x1.data, tables.asg, p)]
    /\ UNCHANGED <<pc, op, x1, x2, axes, out>>
    /\ UNCHANGED work

\* the one synchronization: every worker has gone through its partition
Synchronize ==
    /\ pc = "build"
    /\ \A p \in 1..Len(tables.part) :
          tables.scanned[p] = Cardinality(PositionsOf(tables.asg, p))
    /\ pc' = "merge"
    /\ UNCHANGED <<op, x1, x2, axes, out, tables>>
    /\ UNCHANGED work

\* the table of a partition not merged yet is merged
MergePartition ==
    /\ pc = "merge"
    /\ \E p \in 1..Len(tables.part) :
          /\ \A k \in 1..Len(tables.merged) : tables.merged[k] # p
          /\ tables' = [tables EXCEPT
                !.merged = Append(@, p),
                !.table = MergedWith(@, tables.part[p], tables.asg, p, x1.data)]
    /\ UNCHANGED <<pc, op, x1, x2, axes, out>>
    /\ UNCHANGED work

\* every partition is merged: the result is read off the merged table
Produce ==
    /\ pc = "merge"
    /\ Len(tables.merged) = Len(tables.part)
    /\ \E ord \in Perms(1..Len(tables.table)) :
          \E vals \in MergedReps(x1.data, tables.table, ord) :
             out' = merged_unique_all(x1, tables.table, ord, vals)
    /\ pc' = "done"
    /\ UNCHANGED <<op, x1, x2, axes, tables>>
    /\ UNCHANGED work

\* a call of matmul is entered: nothing is checked yet
BeginMatmul ==
    /\ pc = "idle"
    /\ \E sa \in WShapes, sb \in WShapes :
          /\ x1' = Operand(sa, 0)
          /\ x2' = Operand(sb, MaxFill)
    /\ op' = "matmul"
    /\ pc' = "validate"
    /\ work' = NoWork
    /\ UNCHANGED <<axes, out, tables>>

\* a call of tensordot is entered, with an integer or, on a one-dimensional
\* x1, with axis sequences
BeginTensordot ==
    /\ pc = "idle"
    /\ \E sa \in WShapes, sb \in WShapes :
          /\ x1' = Operand(sa, 0)
          /\ x2' = Operand(sb, MaxFill)
          /\ \/ \E n \in 0..(IF Len(sa) <= Len(sb) THEN Len(sa) ELSE Len(sb)) :
                   axes' = IntAxes(n)
             \/ /\ sa \in AShapes
                /\ Len(sa) = 1
                /\ sb \in AShapes
                /\ \E a1 \in AxisSeqs(Len(sa)), a2 \in AxisSeqs(Len(sb)) :
                      axes' = SeqAxes(a1, a2)
    /\ op' = "tensordot"
    /\ pc' = "validate"
    /\ work' = NoWork
    /\ UNCHANGED <<out, tables>>

\* a call of vecdot is entered
BeginVecdot ==
    /\ pc = "idle"
    /\ \E sa \in WShapes, sb \in WShapes :
          /\ x1' = Operand(sa, 0)
          /\ x2' = Operand(sb, MaxFill)
          /\ \E axis \in (0 - (IF Len(sa) <= Len(sb) THEN Len(sa) ELSE Len(sb)) - 1)..(0 - 1) :
                axes' = AxisArg(axis)
    /\ op' = "vecdot"
    /\ pc' = "validate"
    /\ work' = NoWork
    /\ UNCHANGED <<out, tables>>

\* the next check is made: it passes, or the call ends with its error
Validate ==
    /\ pc = "validate"
    /\ work.passed < NumChecks(op)
    /\ LET e == Check(op, work.passed + 1, x1, x2, axes)
       IN IF e = "none"
          THEN /\ work' = [work EXCEPT !.passed = @ + 1]
               /\ UNCHANGED <<pc, out>>
          ELSE /\ out' = Err(e)
               /\ pc' = "done"
               /\ UNCHANGED work
    /\ UNCHANGED <<op, x1, x2, axes, tables>>

\* the checks are over: the workers start on the elements
StartCompute ==
    /\ pc = "validate"
    /\ ValidationComplete(op, work.passed)
    /\ pc' = "compute"
    /\ UNCHANGED <<op, x1, x2, axes, out, tables, work>>

\* a worker computes the elements of its tile
ComputeTile ==
    /\ pc = "compute"
    /\ LET prod == Product(op, x1, x2, axes)
           n == Size(prod.shape)
       IN \E w \in 1..2 :
             /\ TileOf(w, n) # {}
             /\ TileOf(w, n) \cap DOMAIN work.buffer = {}
             /\ work' = [work EXCEPT
                   !.buffer = [j \in (DOMAIN work.buffer) \cup TileOf(w, n) |->
                                  IF j \in TileOf(w, n) THEN prod.data[j]
                                  ELSE work.buffer[j]]]
    /\ UNCHANGED <<pc, op, x1, x2, axes, out, tables>>

\* the buffer is full: it is returned with the shape of the result
Deliver ==
    /\ pc = "compute"
    /\ LET prod == Product(op, x1, x2, axes)
           n == Size(prod.shape)
       IN /\ DOMAIN work.buffer = 1..n
          /\ out' = [kind |-> "ok", shape |-> prod.shape,
                     data |-> [i \in 1..n |-> work.buffer[i]]]
    /\ pc' = "done"
    /\ UNCHANGED <<op, x1, x2, axes, tables, work>>

Return ==
    /\ pc = "done"
    /\ pc' = "idle"
    /\ op' = "none"
    /\ x1' = NoArray
    /\ x2' = NoArray
    /\ axes' = NoAxes
    /\ out' = NoOut
    /\ tables' = NoTables
    /\ work' = NoWork

\* calls of the set functions
NextUnique ==
    \/ UniqueAll
    \/ UniqueCounts
    \/ UniqueInverse
    \/ UniqueValues
    \/ Return

SpecUnique == Init /\ [][NextUnique]_vars

\* calls of the linear-algebra functions
NextLinalg ==
    \/ Matmul
    \/ TensordotInt
    \/ TensordotAxes
    \/ Return

SpecLinalg == Init /\ [][NextLinalg]_vars

\* calls of the functions that contract named axes
NextContraction ==
    \/ TensordotInt
    \/ TensordotAxes
    \/ Vecdot
    \/ Return

SpecContraction == Init /\ [][NextContraction]_vars

\* uses of the shape rules: broadcasting and axis normalization
NextShape ==
    \/ Broadcast
    \/ NormalizeAxis
    \/ Return

SpecShape == Init /\ [][NextShape]_vars

\* uses of the promotion table
NextPromotion ==
    \/ Resolve
    \/ Return

SpecPromotion == Init /\ [][NextPromotion]_vars

\* calls of the creation functions
NextCreation ==
    \/ Asarray
    \/ Full
    \/ Arange
    \/ Return

SpecCreation == Init /\ [][NextCreation]_vars

\* calls of the sorting functions
NextSorting ==
    \/ Sort
    \/ Argsort
    \/ Return

SpecSorting == Init /\ [][NextSorting]_vars

\* calls of matmul, tensordot and vecdot followed step by step
NextStepwise ==
    \/ BeginMatmul
    \/ BeginTensordot
    \/ BeginVecdot
    \/ Validate
    \/ StartCompute
    \/ ComputeTile
    \/ Deliver
    \/ Return

SpecStepwise == Init /\ [][NextStepwise]_vars

\* unique_all on a partitioned input
NextPartitioned ==
    \/ Partition
    \/ BuildTable
    \/ Synchronize
    \/ MergePartition
    \/ Produce
    \/ Return

SpecPartitioned == Init /\ [][NextPartitioned]_vars

(***************************************************************************)
(* Properties of the set functions.                                        *)
(***************************************************************************)
UniqueOps == {"unique_all", "unique_counts", "unique_inverse", "unique_values"}
Returned(o) == pc = "done" /\ op = o
HasCounts == op \in {"unique_all", "unique_counts"}
HasInverse == op \in {"unique_all", "unique_inverse"}

\* positions of the flattened input, and groups of the result, with a property
NaNPositions == {i \in 1..Len(x1.data) : HasNaN(x1.data[i])}
ZeroPositions == {i \in 1..Len(x1.data) : IsZero(x1.data[i])}
NaNGroups == {g \in 1..Len(out.values.data) : HasNaN(out.values.data[g])}
ZeroGroups == {g \in 1..Len(out.values.data) : IsZero(out.values.data[g])}

\* C1: unique_all returns indices, counts and values of one length, and the
\* counts sum to the number of elements of inverse_indices, which is the
\* number of elements of the input (0 for the empty input).
C1_UniqueAllLengths ==
    Returned("unique_all") =>
        /\ Len(out.indices.data) = Len(out.values.data)
        /\ Len(out.counts.data) = Len(out.values.data)
        /\ out.indices.shape = out.values.shape
        /\ out.counts.shape = out.values.shape
        /\ SumSeq(out.counts.data) = Len(out.inverse_indices.data)
        /\ Len(out.inverse_indices.data) = Size(out.inverse_indices.shape)
        /\ Size(out.inverse_indices.shape) = Size(x1.shape)

C1_Witness ==
    /\ Returned("unique_all")
    /\ Size(x1.shape) = 3
    /\ Len(out.values.data) = 2
    /\ \E g \in 1..2 : out.counts.data[g] = 2

\* C2: in every unique_* function each NaN-bearing element of the input is
\* a group of its own: k NaN-bearing elements give k NaN groups, each with
\* count 1, and no other position is mapped to the group of a NaN.
C2_NaNSingletons ==
    (pc = "done" /\ op \in UniqueOps) =>
        /\ Cardinality(NaNGroups) = Cardinality(NaNPositions)
        /\ HasCounts => \A g \in NaNGroups : out.counts.data[g] = 1
        /\ HasInverse =>
              \A i \in NaNPositions :
                 /\ out.inverse_indices.data[i] + 1 \in NaNGroups
                 /\ \A j \in 1..Len(x1.data) :
                       j # i => out.inverse_indices.data[j] # out.inverse_indices.data[i]

C2_Witness ==
    /\ Returned("unique_counts")
    /\ Cardinality(NaNPositions) = 2
    /\ \E i, j \in NaNPositions : i # j /\ x1.data[i] = x1.data[j]
    /\ Len(x1.data) = 3
    /\ Len(out.values.data) = 3

\* C3: in every unique_* function all +0 and -0 of the input (and the complex
\* zeros) are one group: values holds one zero, whose count is the number of
\* zeros of the input, and every zero is mapped to it.
C3_ZerosMerged ==
    (pc = "done" /\ op \in UniqueOps) =>
        /\ Cardinality(ZeroGroups) = (IF ZeroPositions = {} THEN 0 ELSE 1)
        /\ HasCounts =>
              \A g \in ZeroGroups : out.counts.data[g] = Cardinality(ZeroPositions)
        /\ HasInverse =>
              \A i \in ZeroPositions : out.inverse_indices.data[i] + 1 \in ZeroGroups

C3_Witness ==
    /\ Returned("unique_counts")
    /\ \E i, j \in ZeroPositions : x1.data[i] # x1.data[j]
    /\ Cardinality(ZeroPositions) = 2
    /\ Len(out.values.data) = 2
    /\ \E g \in ZeroGroups : out.counts.data[g] = 2

\* C4: for every group g of unique_all, indices[g] is the smallest position
\* of the flattened input that belongs to g, and values, indices and counts
\* list the groups in one order: the element at indices[g] is values[g] (up
\* to the sign of a zero) and counts[g] is the size of the group of values[g].
C4_FirstOccurrence ==
    Returned("unique_all") =>
        \A g \in 1..Len(out.values.data) :
           LET v == out.values.data[g]
               members == {i \in 1..Len(x1.data) : out.inverse_indices.data[i] = g - 1}
               same == {i \in 1..Len(x1.data) : Equal(x1.data[i], v)}
           IN /\ members # {}
              /\ out.indices.data[g] = Min(members) - 1
              /\ \/ Equal(x1.data[out.indices.data[g] + 1], v)
                 \/ HasNaN(x1.data[out.indices.data[g] + 1]) /\ HasNaN(v)
              /\ out.counts.data[g] = (IF HasNaN(v) THEN 1 ELSE Cardinality(same))
              /\ ~HasNaN(v) => members = same

C4_Witness ==
    /\ Returned("unique_all")
    /\ Len(out.values.data) = 2
    /\ out.indices.data = <<1, 0>>
    /\ out.counts.data = <<1, 2>>

\* C5: for an input with no NaN and no two elements that are equal but differ
\* in the sign of a zero, values gathered by inverse_indices is the flattened
\* input, element for element, for unique_all and for unique_inverse.
SignedZeroFree(d) == \A i, j \in 1..Len(d) : Equal(d[i], d[j]) => d[i] = d[j]

C5_RoundTrip ==
    (pc = "done" /\ HasInverse /\ NaNPositions = {} /\ SignedZeroFree(x1.data)) =>
        /\ Len(out.inverse_indices.data) = Len(x1.data)
        /\ \A i \in 1..Len(x1.data) :
              /\ out.inverse_indices.data[i] + 1 \in 1..Len(out.values.data)
              /\ out.values.data[out.inverse_indices.data[i] + 1] = x1.data[i]

C5_Witness ==
    /\ Returned("unique_inverse")
    /\ NaNPositions = {}
    /\ SignedZeroFree(x1.data)
    /\ Len(x1.data) = 3
    /\ Len(out.values.data) = 2
    /\ out.inverse_indices.data[1] = 1
    /\ \E i \in ZeroPositions : x1.data[i].re.neg

(***************************************************************************)
(* Properties of matmul and tensordot.                                     *)
(***************************************************************************)
Ok == out.kind = "ok"

\* the contracted size on each side of a matmul call, after the promotion of a
\* vector: the last axis of x1, the second-to-last axis of x2
LeftK == x1.shape[Rank(x1)]
RightK == IF Rank(x2) = 1 THEN x2.shape[1] ELSE x2.shape[Rank(x2) - 1]

\* C6: with matching contraction size, (K,) x (K,) gives rank 0, (M,K) x (K,N)
\* gives (M,N), (K,) x (...,K,N) gives (...,N) and (...,M,K) x (K,) gives
\* (...,M): a vector on the left is multiplied as the matrix (1,K), one on the
\* right as (K,1), and the inserted axis is removed from the result.
C6_MatmulPromotion ==
    (Returned("matmul") /\ Rank(x1) >= 1 /\ Rank(x2) >= 1 /\ LeftK = RightK) =>
        LET r1 == Rank(x1)
            r2 == Rank(x2)
            asRow == [x1 EXCEPT !.shape = <<1>> \o x1.shape]
            asCol == [x2 EXCEPT !.shape = x2.shape \o <<1>>]
        IN /\ (r1 = 1 /\ r2 = 1) => (Ok /\ out.shape = <<>>)
           /\ (r1 = 2 /\ r2 = 2) => (Ok /\ out.shape = <<x1.shape[1], x2.shape[2]>>)
           /\ (r1 = 1 /\ r2 >= 2) =>
                 /\ Ok
                 /\ out.shape = Slice(x2.shape, 1, r2 - 2) \o <<x2.shape[r2]>>
                 /\ matmul(asRow, x2).kind = "ok"
                 /\ matmul(asRow, x2).shape
                       = Slice(x2.shape, 1, r2 - 2) \o <<1, x2.shape[r2]>>
                 /\ matmul(asRow, x2).data = out.data
           /\ (r1 >= 2 /\ r2 = 1) =>
                 /\ Ok
                 /\ out.shape = Slice(x1.shape, 1, r1 - 1)
                 /\ matmul(x1, asCol).kind = "ok"
                 /\ matmul(x1, asCol).shape = Slice(x1.shape, 1, r1 - 1) \o <<1>>
                 /\ matmul(x1, asCol).data = out.data

C6_Witness ==
    /\ Returned("matmul")
    /\ Ok
    /\ x1.shape = <<2>>
    /\ x2.shape = <<2, 2, 1>>
    /\ out.shape = <<2, 1>>

\* the shapes of the operands of a matmul call as matrices or stacks of them
P1 == PromoteLeft(x1.shape)
P2 == PromoteRight(x2.shape)
RowsM == P1[Len(P1) - 1]
ColsN == P2[Len(P2)]

\* two compatible shapes broadcast: aligned at the last axis, the larger size
\* of each pair, the leading axes of the longer shape kept
RECURSIVE Stretched(_, _)
Stretched(a, b) ==
    IF a = <<>> THEN b
    ELSE IF b = <<>> THEN a
    ELSE Stretched(Slice(a, 1, Len(a) - 1), Slice(b, 1, Len(b) - 1))
            \o <<IF a[Len(a)] >= b[Len(b)] THEN a[Len(a)] ELSE b[Len(b)]>>

Batch == Stretched(Slice(P1, 1, Len(P1) - 2), Slice(P2, 1, Len(P2) - 2))

\* the matrix of a promoted operand at the batch index b of the result: an
\* axis of size 1 is read at 0 whatever the index, a missing axis is skipped
MatrixAt(x, p, b) ==
    LET nb == Len(p) - 2
        at == [i \in 1..nb |-> b[Len(b) - nb + i] % p[i]]
    IN FromFunction(<<p[Len(p) - 1], p[Len(p)]>>,
          [idx \in MultiIndices(<<p[Len(p) - 1], p[Len(p)]>>) |-> At(x, p, at \o idx)])

\* the result at each batch index is the product of the two matrices there
PerBatchProduct ==
    \A b \in MultiIndices(Batch) :
       LET m2 == matmul(MatrixAt(x1, P1, b), MatrixAt(x2, P2, b))
       IN /\ m2.kind = "ok"
          /\ m2.shape = <<RowsM, ColsN>>
          /\ \A idx \in MultiIndices(<<RowsM, ColsN>>) :
                At(out, Batch \o <<RowsM, ColsN>>, b \o idx) = At(m2, m2.shape, idx)

\* C7 as stated: when either operand has more than two axes after the
\* promotion, the result shape is the broadcast batch shape followed by (M, N).
C7_BatchShapeAsStated ==
    (Returned("matmul") /\ Ok /\ (Len(P1) > 2 \/ Len(P2) > 2)) =>
        out.shape = Batch \o <<RowsM, ColsN>>

\* C7, amended: when either operand has more than two axes after the promotion,
\* the result shape is the broadcast batch shape followed by (M, N) without the
\* axis the promotion of a vector inserted (M for a vector x1, N for a vector
\* x2), and the result at each batch index is the matrix product of the
\* broadcast matrices at that index.
C7_Batching ==
    (Returned("matmul") /\ Ok /\ (Len(P1) > 2 \/ Len(P2) > 2)) =>
        /\ out.shape = Batch \o (IF Rank(x1) = 1 THEN <<>> ELSE <<RowsM>>)
                             \o (IF Rank(x2) = 1 THEN <<>> ELSE <<ColsN>>)
        /\ Len(out.data) = Size(Batch) * RowsM * ColsN
        /\ PerBatchProduct

C7_Witness ==
    /\ Returned("matmul")
    /\ Ok
    /\ x1.shape = <<2, 1, 1>>
    /\ x2.shape = <<1, 1, 2>>
    /\ out.shape = <<2, 1, 2>>
    /\ At(out, out.shape, <<1, 0, 1>>) # At(out, out.shape, <<0, 0, 1>>)

\* C8: matmul fails with ShapeMismatchError, returning nothing, when either
\* operand has no axis, and when the last axis of x1 and the second-to-last
\* axis of x2 (after the promotion of a vector) differ in size.
C8_MatmulErrors ==
    (Returned("matmul")
        /\ ( \/ Rank(x1) = 0
             \/ Rank(x2) = 0
             \/ (Rank(x1) >= 1 /\ Rank(x2) >= 1 /\ LeftK # RightK) )) =>
        /\ out.kind = "error"
        /\ out.err = "ShapeMismatchError"
        /\ DOMAIN out = {"kind", "err"}

C8_Witness ==
    /\ Returned("matmul")
    /\ x1.shape = <<2, 1, 1>>
    /\ x2.shape = <<2>>
    /\ out.kind = "error"
    /\ out.err = "ShapeMismatchError"

\* an operand read as a matrix with the given number of columns
Entry(x, cols, i, j) == x.data[i * cols + j + 1]

\* the size contracted by a tensordot call with an integer axes = N
ContractedSize == Prod(Slice(x2.shape, 1, axes.n))

\* the sum of products, nothing conjugated, of row i of a and column j of b
SumOfProducts(a, b, K, N, i, j) ==
    CSum([k \in 0..(K - 1) |-> CMul(Entry(a, K, i, k), Entry(b, N, k, j))], K)

\* the same sum with the left factor conjugated
SumOfConjProducts(a, b, K, N, i, j) ==
    CSum([k \in 0..(K - 1) |-> CMul(Conj(Entry(a, K, i, k)), Entry(b, N, k, j))], K)

\* C9: matmul (of vectors and matrices) and tensordot (with an integer axes,
\* the operands read as matrices over the contracted axes) return the plain
\* sum of the products a_ik * b_kj; no operand is conjugated or transposed.
C9_NoConjugation ==
    /\ (Returned("matmul") /\ Ok /\ Rank(x1) <= 2 /\ Rank(x2) <= 2) =>
          /\ Len(out.data) = RowsM * ColsN
          /\ \A i \in 0..(RowsM - 1), j \in 0..(ColsN - 1) :
                Entry(out, ColsN, i, j) = SumOfProducts(x1, x2, LeftK, ColsN, i, j)
    /\ (Returned("tensordot") /\ Ok /\ axes.int) =>
          LET K == ContractedSize
              M == Size(x1.shape) \div K
              N == Size(x2.shape) \div K
          IN /\ Len(out.data) = M * N
             /\ \A i \in 0..(M - 1), j \in 0..(N - 1) :
                   Entry(out, N, i, j) = SumOfProducts(x1, x2, K, N, i, j)

C9_Witness ==
    /\ Returned("matmul")
    /\ Ok
    /\ x1.dtype = "complex128"
    /\ x1.shape = <<2, 2>>
    /\ x2.shape = <<2, 2>>
    /\ Entry(out, 2, 0, 1) # SumOfConjProducts(x1, x2, 2, 2, 0, 1)
    /\ Entry(out, 2, 0, 1) # Entry(out, 2, 1, 0)

\* the sizes of the axes of a shape that are not among the given (normalized,
\* 0-based) axes, in the original order
RECURSIVE Remaining(_, _, _)
Remaining(shape, gone, i) ==
    IF i > Len(shape) THEN <<>>
    ELSE (IF (i - 1) \in gone THEN <<>> ELSE <<shape[i]>>) \o Remaining(shape, gone, i + 1)

Normalized(a, rank) == {IF a[k] < 0 THEN a[k] + rank ELSE a[k] : k \in 1..Len(a)}

\* C10: tensordot with an integer axes = N contracts axis rank(x1)-N+i of x1
\* with axis i of x2, for i = 0..N-1 in this order: the call fails if a pair
\* differs in size and otherwise returns what the explicit axis sequences do;
\* the result shape is the non-contracted axes of x1 in their order followed
\* by those of x2 in their order, for an integer axes and for axis sequences.
C10_TensordotAxes ==
    /\ (Returned("tensordot") /\ axes.int) =>
          LET n == axes.n
              r1 == Rank(x1)
              explicit == SeqAxes([i \in 1..n |-> r1 - n + i - 1], [i \in 1..n |-> i - 1])
          IN /\ Ok <=> \A i \in 1..n : x1.shape[r1 - n + i] = x2.shape[i]
             /\ Ok => out.shape = Slice(x1.shape, 1, r1 - n) \o Slice(x2.shape, n + 1, Rank(x2))
             /\ out = tensordot(x1, x2, explicit)
    /\ (Returned("tensordot") /\ ~axes.int /\ Ok) =>
          out.shape = Remaining(x1.shape, Normalized(axes.a1, Rank(x1)), 1)
                         \o Remaining(x2.shape, Normalized(axes.a2, Rank(x2)), 1)

C10_Witness ==
    /\ Returned("tensordot")
    /\ Ok
    /\ axes.int
    /\ axes.n = 1
    /\ x1.shape = <<1, 2, 2>>
    /\ x2.shape = <<2, 2>>
    /\ out.shape = <<1, 2, 2>>

\* the axis an index of an explicit sequence names, and whether it names one
Resolved(a, rank) == IF a < 0 THEN a + rank ELSE a
InRange(s, rank) == \A i \in 1..Len(s) : 0 - rank <= s[i] /\ s[i] <= rank - 1
Repeats(s, rank) == Cardinality({Resolved(s[i], rank) : i \in 1..Len(s)}) < Len(s)

\* C11: tensordot with explicit axes (x1_axes, x2_axes) fails when the two
\* sequences differ in length; with equal lengths it fails with
\* InvalidAxisError when an index lies outside [-rank, rank) of its own
\* operand, and, every index in range, with DuplicateAxisError when two
\* indices of one sequence name the same axis after a negative index a is
\* read as a + rank (so 0 and -rank are duplicates); it fails with neither
\* error otherwise.
C11_ExplicitAxes ==
    (Returned("tensordot") /\ ~axes.int) =>
        LET r1 == Rank(x1)
            r2 == Rank(x2)
            sameLen == Len(axes.a1) = Len(axes.a2)
            inRange == InRange(axes.a1, r1) /\ InRange(axes.a2, r2)
            repeats == Repeats(axes.a1, r1) \/ Repeats(axes.a2, r2)
        IN /\ ~sameLen => out.kind = "error"
           /\ (sameLen /\ ~inRange) => out = Err("InvalidAxisError")
           /\ (sameLen /\ inRange /\ repeats) => out = Err("DuplicateAxisError")
           /\ (sameLen /\ inRange /\ ~repeats) =>
                 (Ok \/ out = Err("ShapeMismatchError"))

C11_Witness ==
    /\ Returned("tensordot")
    /\ ~axes.int
    /\ x1.shape = <<2, 2>>
    /\ axes.a1 = <<0, 0 - 2>>
    /\ axes.a2 = <<0, 1>>
    /\ out = Err("DuplicateAxisError")

\* the product of two elements
Times(a, b) == [re |-> a.re * b.re - a.im * b.im, im |-> a.re * b.im + a.im * b.re]

\* C13: tensordot with axes = 0 is the outer product: it succeeds for all
\* operands, the result shape is the shape of x1 followed by the shape of x2,
\* and the element at (i..., j...) is x1[i...] * x2[j...]; in row-major order
\* that is the element at offset(i...) * size(x2) + offset(j...).
C13_OuterProduct ==
    (Returned("tensordot") /\ axes.int /\ axes.n = 0) =>
        LET m == Size(x1.shape)
            n == Size(x2.shape)
        IN /\ Ok
           /\ out.shape = x1.shape \o x2.shape
           /\ Len(out.data) = m * n
           /\ \A i \in 0..(m - 1), j \in 0..(n - 1) :
                 out.data[i * n + j + 1] = Times(x1.data[i + 1], x2.data[j + 1])

C13_Witness ==
    /\ Returned("tensordot")
    /\ axes.int
    /\ axes.n = 0
    /\ x1.shape = <<2>>
    /\ x2.shape = <<3>>
    /\ x1.dtype = "complex128"
    /\ out.shape = <<2, 3>>
    /\ out.data[6] = Times(x1.data[2], x2.data[3])
    /\ out.data[6] # Times(Conj(x1.data[2]), x2.data[3])

(***************************************************************************)
(* Properties of the contractions of tensordot and vecdot.                 *)
(***************************************************************************)
\* the pairs (axis of x1, axis of x2), 1-based, a tensordot call contracts
TensordotPairs ==
    IF axes.int
    THEN {<<Rank(x1) - axes.n + i, i>> : i \in 1..axes.n}
    ELSE {<<Resolved(axes.a1[k], Rank(x1)) + 1, Resolved(axes.a2[k], Rank(x2)) + 1>> :
             k \in 1..Len(axes.a1)}

\* the axes of a tensordot call are well formed: for explicit sequences, of
\* one length, in range and without repetition
WellFormedAxes ==
    axes.int \/ ( /\ Len(axes.a1) = Len(axes.a2)
                  /\ InRange(axes.a1, Rank(x1)) /\ InRange(axes.a2, Rank(x2))
                  /\ ~Repeats(axes.a1, Rank(x1)) /\ ~Repeats(axes.a2, Rank(x2)) )

\* the axis of a vecdot call names an axis of both operands
VecdotAxisValid ==
    /\ axes.n <= 0 - 1
    /\ 0 - axes.n <= Rank(x1)
    /\ 0 - axes.n <= Rank(x2)

\* the 1-based position of the contracted axis of a vecdot call in an operand
VecdotAxis(x) == Rank(x) + axes.n + 1

\* the sizes of the axes of a shape other than the k-th, k 1-based
Others(shape, k) == Remaining(shape, {k - 1}, 1)

\* two shapes, aligned at the last axis, agree or have a 1 at each common axis
Aligned(a, b) ==
    \A i \in 0..((IF Len(a) <= Len(b) THEN Len(a) ELSE Len(b)) - 1) :
       \/ a[Len(a) - i] = b[Len(b) - i]
       \/ a[Len(a) - i] = 1
       \/ b[Len(b) - i] = 1

\* C12: a contracted pair of axes is never broadcast: a tensordot call (with
\* well-formed axes) and a vecdot call (with a valid axis) fail with
\* ShapeMismatchError whenever the two sizes of a contracted pair differ, a
\* size of 1 included; the other axes of vecdot are broadcast, so that with
\* equal contracted sizes the call succeeds exactly when they are compatible.
C12_ContractedNeverBroadcast ==
    /\ (Returned("tensordot") /\ WellFormedAxes) =>
          /\ (\E p \in TensordotPairs : x1.shape[p[1]] # x2.shape[p[2]])
                => out = Err("ShapeMismatchError")
          /\ (\A p \in TensordotPairs : x1.shape[p[1]] = x2.shape[p[2]]) => Ok
    /\ (Returned("vecdot") /\ VecdotAxisValid) =>
          /\ x1.shape[VecdotAxis(x1)] # x2.shape[VecdotAxis(x2)]
                => out = Err("ShapeMismatchError")
          /\ x1.shape[VecdotAxis(x1)] = x2.shape[VecdotAxis(x2)]
                => (Ok <=> Aligned(Others(x1.shape, VecdotAxis(x1)),
                                   Others(x2.shape, VecdotAxis(x2))))

C12_Witness ==
    /\ Returned("vecdot")
    /\ axes.n = 0 - 1
    /\ x1.shape = <<2, 1>>
    /\ x2.shape = <<1, 2>>
    /\ out = Err("ShapeMismatchError")
    /\ vecdot(x1, x2, 0 - 2) = Err("ShapeMismatchError")
    /\ vecdot(x1, [x2 EXCEPT !.shape = <<2, 1>>], 0 - 1).kind = "ok"

\* the element of operand x that enters the result element at index b of a
\* vecdot call, at index i of the contracted axis: an axis of size 1 is read
\* at 0 whatever the index
Factor(x, b, i) ==
    LET r == Rank(x)
        k == VecdotAxis(x)
    IN At(x, x.shape,
          [j \in 1..r |->
             IF j = k THEN i
             ELSE b[Len(b) - (r - 1) + (IF j < k THEN j ELSE j - 1)] % x.shape[j]])

\* C14: each element of the result of vecdot is the sum over the contracted
\* axis of conj(a_i) * b_i, the elements of x1 conjugated (nothing changes
\* for a real element) and those of x2 not; hence vecdot(x2, x1) is the
\* elementwise conjugate of vecdot(x1, x2).
C14_VecdotConjugatesFirst ==
    (Returned("vecdot") /\ Ok) =>
        LET n == x1.shape[VecdotAxis(x1)]
            swapped == vecdot(x2, x1, axes.n)
        IN /\ \A b \in MultiIndices(out.shape) :
                 At(out, out.shape, b)
                    = CSum([i \in 0..(n - 1) |->
                               Times([re |-> Factor(x1, b, i).re,
                                      im |-> 0 - Factor(x1, b, i).im],
                                     Factor(x2, b, i))], n)
           /\ swapped.kind = "ok"
           /\ swapped.shape = out.shape
           /\ \A q \in 1..Len(out.data) :
                 /\ swapped.data[q].re = out.data[q].re
                 /\ swapped.data[q].im = 0 - out.data[q].im

C14_Witness ==
    /\ Returned("vecdot")
    /\ Ok
    /\ x1.dtype = "complex128"
    /\ x2.dtype = "float64"
    /\ x1.shape = <<2>>
    /\ x2.shape = <<2>>
    /\ out.data = <<[re |-> 2, im |-> 1]>>
    /\ vecdot(x2, x1, axes.n).data = <<[re |-> 2, im |-> 0 - 1]>>

\* C15: in a successful vecdot call the (negative) axis names, counted from
\* the last axis, an axis of both operands; the result shape is the broadcast
\* of the two operand shapes without that axis, so it has one axis fewer than
\* the broadcast shape, and no axis when both operands have one.
C15_VecdotShape ==
    (Returned("vecdot") /\ Ok) =>
        LET B == Stretched(x1.shape, x2.shape)
        IN /\ VecdotAxisValid
           /\ out.shape = Others(B, Len(B) + axes.n + 1)
           /\ Len(out.shape) = Len(B) - 1
           /\ Len(out.data) = Size(out.shape)
           /\ (Rank(x1) = 1 /\ Rank(x2) = 1) => out.shape = <<>>

C15_Witness ==
    /\ Returned("vecdot")
    /\ Ok
    /\ axes.n = 0 - 2
    /\ x1.shape = <<2, 2, 1>>
    /\ x2.shape = <<2, 2>>
    /\ out.shape = <<2, 2>>

(***************************************************************************)
(* Properties of broadcasting and of axis normalization.                   *)
(***************************************************************************)
\* the size of the axis of a shape that is i axes before the last, 1 when the
\* shape has no such axis
FromLast(s, i) == IF i < Len(s) THEN s[Len(s) - i] ELSE 1

LongerRank(a, b) == IF Len(a) >= Len(b) THEN Len(a) ELSE Len(b)

\* C16: broadcast aligns two shapes at the last axis, a missing leading axis
\* counting as 1; it fails with BroadcastError exactly when the sizes of some
\* aligned pair differ and neither is 1, and otherwise returns, for each
\* pair, the common size or the size that is not 1; broadcast(B, A) fails
\* when broadcast(A, B) does and returns the same shape when it does not.
C16_Broadcast ==
    Returned("broadcast") =>
        LET a == x1.shape
            b == x2.shape
            n == LongerRank(a, b)
            clash == \E i \in 0..(n - 1) :
                        /\ FromLast(a, i) # FromLast(b, i)
                        /\ FromLast(a, i) # 1
                        /\ FromLast(b, i) # 1
        IN /\ clash <=> out = Err("BroadcastError")
           /\ ~clash =>
                 /\ Ok
                 /\ Len(out.shape) = n
                 /\ \A i \in 0..(n - 1) :
                       FromLast(out.shape, i)
                          = (IF FromLast(a, i) = FromLast(b, i) THEN FromLast(a, i)
                             ELSE IF FromLast(a, i) = 1 THEN FromLast(b, i)
                             ELSE FromLast(a, i))
           /\ broadcast(b, a) = out

C16_Witness ==
    /\ Returned("broadcast")
    /\ x1.shape = <<3, 1>>
    /\ x2.shape = <<1, 4>>
    /\ out = [kind |-> "ok", shape |-> <<3, 4>>]
    /\ broadcast(<<3>>, <<4>>) = Err("BroadcastError")
    /\ broadcast(<<4>>, <<3>>) = Err("BroadcastError")

\* C17: resolving an axis against an array of rank r succeeds exactly when
\* -r <= axis < r and then returns axis when axis >= 0 and axis + r when
\* axis < 0, a value in [0, r), so that -1 names the last axis; every other
\* axis, and every axis when r = 0, fails with InvalidAxisError.
C17_NormalizeAxis ==
    Returned("normalize_axis") =>
        LET r == Rank(x1)
            a == axes.n
        IN /\ Ok <=> (0 - r <= a /\ a <= r - 1)
           /\ Ok => /\ out.axis = (IF a >= 0 THEN a ELSE a + r)
                    /\ out.axis \in 0..(r - 1)
                    /\ (a = 0 - 1) => out.axis = r - 1
           /\ ~Ok => out = Err("InvalidAxisError")
           /\ r = 0 => ~Ok

C17_Witness ==
    /\ Returned("normalize_axis")
    /\ x1.shape = <<2, 1, 2>>
    /\ axes.n = 0 - 1
    /\ out = [kind |-> "ok", axis |-> 2]
    /\ checked_axis(0 - 1, 0) = Err("InvalidAxisError")
    /\ checked_axis(3, 3) = Err("InvalidAxisError")

(***************************************************************************)
(* Properties of the promotion of data types.                              *)
(***************************************************************************)
\* the data types promoted by a resolve call
Promoted == x1.data

\* C18: the promotion of data types is commutative, associative and
\* idempotent: the result of a call does not change when its arguments are
\* reordered or grouped differently, and equal arguments promote to
\* themselves.
C18_PromotionAlgebra ==
    Returned("resolve") =>
        LET ds == Promoted
            n == Len(ds)
        IN /\ \A p \in Perms(1..n) : resolve([i \in 1..n |-> ds[p[i]]]) = out.dtype
           /\ n = 2 => /\ PromotionTable[ds[1], ds[2]] = out.dtype
                       /\ PromotionTable[ds[2], ds[1]] = out.dtype
           /\ n = 3 => /\ PromotionTable[PromotionTable[ds[1], ds[2]], ds[3]] = out.dtype
                       /\ PromotionTable[ds[1], PromotionTable[ds[2], ds[3]]] = out.dtype
           /\ (\A i \in 1..n : ds[i] = ds[1]) => out.dtype = ds[1]

C18_Witness ==
    /\ Returned("resolve")
    /\ Promoted = <<DType("complex", 64), DType("int", 64), DType("float", 32)>>
    /\ out.dtype = DType("complex", 128)
    /\ PromotionTable[DType("float", 32), DType("complex", 64)] = DType("complex", 64)

\* C19: the result of a promotion has the highest kind among the inputs, in
\* the order bool < int < float < complex, so that it lies strictly above
\* every input of a lower kind; its width is at least the width of every
\* input; and when all inputs are of one kind it is the widest of them.
C19_PromotionLattice ==
    Returned("resolve") =>
        LET ds == Promoted
            n == Len(ds)
            r == out.dtype
        IN /\ r \in DTypes
           /\ \E i \in 1..n : ds[i].kind = r.kind
           /\ \A i \in 1..n :
                 /\ KindRank(ds[i].kind) <= KindRank(r.kind)
                 /\ ds[i].kind # r.kind => KindRank(ds[i].kind) < KindRank(r.kind)
                 /\ ds[i].width <= r.width
           /\ (\A i \in 1..n : ds[i].kind = ds[1].kind) =>
                 /\ \E i \in 1..n : r = ds[i]
                 /\ \A i \in 1..n : ds[i].width <= r.width

C19_Witness ==
    /\ Returned("resolve")
    /\ Promoted = <<DType("int", 16), DType("bool", 8), DType("int", 32)>>
    /\ out.dtype = DType("int", 32)
    /\ resolve(<<DType("bool", 8), DType("float", 64), DType("complex", 64)>>)
          = DType("complex", 128)

(***************************************************************************)
(* Properties of the creation functions.                                   *)
(***************************************************************************)
CreationOps == {"asarray", "full", "arange"}

\* the kinds of the Python scalars given to a creation call
GivenKinds == {x1.data[i].kind : i \in 1..Len(x1.data)} \ {"none"}

\* the four cases of the inference, in the order of the claim
AllBool == GivenKinds = {"bool"}
IntOrMix == "int" \in GivenKinds /\ GivenKinds \subseteq {"bool", "int"}
AnyComplex == "complex" \in GivenKinds
FloatNoComplex == "float" \in GivenKinds /\ "complex" \notin GivenKinds

\* the number of the cases that hold
CasesHolding ==
    (IF AllBool THEN 1 ELSE 0) + (IF IntOrMix THEN 1 ELSE 0)
       + (IF AnyComplex THEN 1 ELSE 0) + (IF FloatNoComplex THEN 1 ELSE 0)

\* the objects with the scalars of x1 in another order, or with other values
\* of the same kinds at the same places
Reordered == {[i \in 1..Len(x1.data) |-> x1.data[p[i]]] : p \in Perms(1..Len(x1.data))}
Revalued ==
    {s \in [1..Len(x1.data) -> OScalars] :
        \A i \in 1..Len(x1.data) : s[i].kind = x1.data[i].kind}

\* C20: with no dtype given, asarray, full and arange decide the data type
\* from the kinds of the Python scalars alone: bool when all are bool, the
\* default integer type for ints or a mix of bools and ints, the default
\* complex type when a complex is present, and otherwise, a float being
\* present, the default real floating-point type; exactly one of the four
\* cases holds, and the order and the values of the scalars do not matter.
C20_ScalarInference ==
    (pc = "done" /\ op \in CreationOps) =>
        /\ Ok
        /\ CasesHolding = 1
        /\ AllBool => out.dtype = "bool"
        /\ IntOrMix => out.dtype = "default integer"
        /\ AnyComplex => out.dtype = "default complex floating-point"
        /\ FloatNoComplex => out.dtype = "default real floating-point"
        /\ op = "asarray" =>
              /\ \A s \in Reordered : asarray([x1 EXCEPT !.data = s]).dtype = out.dtype
              /\ \A s \in Revalued : asarray([x1 EXCEPT !.data = s]).dtype = out.dtype

C20_Witness ==
    /\ Returned("asarray")
    /\ Len(x1.data) = 3
    /\ x1.data[1].kind = "float"
    /\ x1.data[2].kind = "complex"
    /\ x1.data[3].kind = "bool"
    /\ out.dtype = "default complex floating-point"
    /\ full(<<2>>, Scalar("bool", 2, 0)).dtype = "bool"
    /\ arange(Scalar("int", 0, 0), Scalar("float", 3, 0), Scalar("int", 2, 0)).dtype
          = "default real floating-point"

(***************************************************************************)
(* Properties of sort and argsort.                                         *)
(***************************************************************************)
SortOps == {"sort", "argsort"}

\* the axis sorted along (1-based) and the indices of the other axes
SortAxis == (IF axes.n < 0 THEN axes.n + Rank(x1) ELSE axes.n) + 1
Lanes == MultiIndices(Others(x1.shape, SortAxis))

\* the vector of an array of the shape of x1 along the sorted axis at lane b
Lane(a, b) ==
    [i \in 1..x1.shape[SortAxis] |->
        a.data[FlatIndex(x1.shape,
                 [j \in 1..Rank(x1) |->
                    IF j = SortAxis THEN i - 1
                    ELSE b[IF j < SortAxis THEN j ELSE j - 1]]) + 1]]

\* the value a scalar stands for, the sign of a zero left out
Value(a) == IF a.mag = 0 THEN 0 ELSE IF a.neg THEN 0 - a.mag ELSE a.mag

\* the place (1-based) of the element at position i of v in the stable order:
\* after every element that goes before it by value and after the equal
\* elements that precede it in v
Place(v, i, descending) ==
    Cardinality({j \in 1..Len(v) :
                    IF descending THEN Value(v[j]) > Value(v[i])
                    ELSE Value(v[j]) < Value(v[i])})
       + Cardinality({j \in 1..(i - 1) : Value(v[j]) = Value(v[i])}) + 1

\* C21: with stable = true, sort and argsort put each vector along the axis
\* in order of value, non-decreasing or (descending) non-increasing, and in
\* both directions equal elements keep their original order: the element at
\* position i goes to the place after all elements before it by value and
\* after the equal elements that precede it.
C21_StableOrder ==
    (pc = "done" /\ op \in SortOps /\ Ok /\ axes.stable) =>
        \A b \in Lanes :
           LET v == Lane(x1, b)
               w == Lane(out, b)
           IN \A i \in 1..Len(v) :
                 w[Place(v, i, axes.descending)] = (IF op = "sort" THEN v[i] ELSE i - 1)

C21_Witness ==
    /\ Returned("sort")
    /\ Ok
    /\ axes.stable
    /\ axes.descending
    /\ x1.data = <<PosZero, MinusOne, NegZero>>
    /\ out.data = <<PosZero, NegZero, MinusOne>>
    /\ sort(x1, 0, [b \in {<<>>} |-> <<2, 1, 3>>]).data = <<MinusOne, PosZero, NegZero>>

\* the elements of x1 gathered along the sorted axis by an array of indices
Gathered(ix) ==
    [n \in 1..Len(x1.data) |->
        x1.data[FlatIndex(x1.shape,
                  [Unflat(x1.shape, n - 1) EXCEPT ![SortAxis] = ix[n]]) + 1]]

\* a vector is ordered by value in the direction asked for
InOrder(w) ==
    \A i, j \in 1..Len(w) :
       i < j => (IF axes.descending THEN Value(w[i]) >= Value(w[j])
                 ELSE Value(w[i]) <= Value(w[j]))

\* the results the other function may return for the call at hand
SortResults ==
    {sort(x1, axes.n, ord).data :
        ord \in CallOrderings(x1, axes.n, axes.descending, axes.stable)}
ArgsortResults ==
    {argsort(x1, axes.n, ord).data :
        ord \in CallOrderings(x1, axes.n, axes.descending, axes.stable)}

\* C22: gathering x along the axis by the indices argsort returns gives, with
\* stable = true, exactly what sort returns for the same axis and direction,
\* and with stable = false values that are still ordered in that direction.
C22_ArgsortMatchesSort ==
    /\ (Returned("argsort") /\ Ok) =>
          /\ axes.stable => SortResults = {Gathered(out.data)}
          /\ \A b \in Lanes : InOrder(Lane([data |-> Gathered(out.data)], b))
    /\ (Returned("sort") /\ Ok /\ axes.stable) =>
          \A ix \in ArgsortResults : Gathered(ix) = out.data

C22_Witness ==
    /\ Returned("argsort")
    /\ Ok
    /\ axes.stable
    /\ ~axes.descending
    /\ x1.data = <<PosZero, MinusOne, MinusOne>>
    /\ out.data = <<1, 2, 0>>
    /\ Gathered(out.data) = <<MinusOne, MinusOne, PosZero>>

\* the number of times an element occurs in a vector
Occurrences(w, e) == Cardinality({i \in 1..Len(w) : w[i] = e})

\* C27: for every axis, direction and stable setting the result has the shape
\* of x; each vector of sort's result along the axis holds the elements of
\* the same vector of x, each as often as there; each vector of argsort's
\* result holds every index 0..n-1 once; and each vector of the result is a
\* result of sorting that vector of x alone.
C27_Permutation ==
    (pc = "done" /\ op \in SortOps /\ Ok) =>
        /\ out.shape = x1.shape
        /\ Len(out.data) = Len(x1.data)
        /\ \A b \in Lanes :
              LET v == Lane(x1, b)
                  w == Lane(out, b)
                  alone == [dtype |-> x1.dtype, shape |-> <<Len(v)>>, data |-> v]
                  orders == {[c \in {<<>>} |-> p] :
                                p \in SlicePerms(v, axes.descending, axes.stable)}
              IN IF op = "sort"
                 THEN /\ \A i \in 1..Len(v) : Occurrences(w, v[i]) = Occurrences(v, v[i])
                      /\ \A i \in 1..Len(w) : Occurrences(v, w[i]) = Occurrences(w, w[i])
                      /\ w \in {sort(alone, 0, o).data : o \in orders}
                 ELSE /\ {w[i] : i \in 1..Len(w)} = 0..(Len(v) - 1)
                      /\ w \in {argsort(alone, 0, o).data : o \in orders}

C27_Witness ==
    /\ Returned("sort")
    /\ Ok
    /\ ~axes.stable
    /\ axes.n = 0
    /\ x1.shape = <<2, 2>>
    /\ x1.data = <<PosZero, NegZero, NegZero, MinusOne>>
    /\ out.data = <<NegZero, MinusOne, PosZero, NegZero>>

(***************************************************************************)
(* Validation in matmul, tensordot and vecdot.                             *)
(***************************************************************************)
EngineOps == {"matmul", "tensordot", "vecdot"}

\* the error the shapes and the axes of a call ask for, "none" when they are
\* valid; no element of an operand is looked at
MatmulError ==
    IF Rank(x1) = 0 \/ Rank(x2) = 0 THEN "ShapeMismatchError"
    ELSE IF LeftK # RightK THEN "ShapeMismatchError"
    ELSE IF ~Aligned(Slice(P1, 1, Len(P1) - 2), Slice(P2, 1, Len(P2) - 2))
    THEN "BroadcastError"
    ELSE "none"

TensordotError ==
    IF ~axes.int /\ Len(axes.a1) # Len(axes.a2) THEN "Exception"
    ELSE IF ~axes.int /\ ~(InRange(axes.a1, Rank(x1)) /\ InRange(axes.a2, Rank(x2)))
    THEN "InvalidAxisError"
    ELSE IF ~axes.int /\ (Repeats(axes.a1, Rank(x1)) \/ Repeats(axes.a2, Rank(x2)))
    THEN "DuplicateAxisError"
    ELSE IF \E p \in TensordotPairs : x1.shape[p[1]] # x2.shape[p[2]]
    THEN "ShapeMismatchError"
    ELSE "none"

VecdotError ==
    IF ~VecdotAxisValid THEN "InvalidAxisError"
    ELSE IF x1.shape[VecdotAxis(x1)] # x2.shape[VecdotAxis(x2)] THEN "ShapeMismatchError"
    ELSE IF ~Aligned(Others(x1.shape, VecdotAxis(x1)), Others(x2.shape, VecdotAxis(x2)))
    THEN "BroadcastError"
    ELSE "none"

ValidationError ==
    CASE op = "matmul" -> MatmulError
      [] op = "tensordot" -> TensordotError
      [] op = "vecdot" -> VecdotError

\* what the function at hand returns for the operands and axes of the call
Recomputed ==
    CASE op = "matmul" -> matmul(x1, x2)
      [] op = "tensordot" -> tensordot(x1, x2, axes)
      [] op = "vecdot" -> vecdot(x1, x2, axes.n)

\* elements of the result that have been computed
Computed == DOMAIN work.buffer

ArangeStop == x1.data[2]
ArangeFirst == IF ArangeStop = None THEN 0 ELSE x1.data[1].re
ArangeLast == IF ArangeStop = None THEN x1.data[1].re ELSE ArangeStop.re
ArangeStep == x1.data[3].re

IntegerArguments == GivenKinds = {"int"}

\* n = ceil(d / s) for d and s of the same sign
IsCeil(n, d, s) ==
    IF s > 0 THEN (n - 1) * s < d /\ d <= n * s
    ELSE (n - 1) * s > d /\ d >= n * s

\* v lies in the interval from a to b that is closed at a and open at b
InHalfOpen(v, a, b, s) == IF s > 0 THEN a <= v /\ v < b ELSE b < v /\ v <= a

\* C24: arange returns a one-dimensional array whose length is
\* ceil((stop - start) / step) when stop - start and step have the same sign
\* and 0 otherwise, the interval being [0, start) when one argument is given;
\* for integer arguments element i is start + i * step and lies in the
\* half-open interval, so stop is not among the elements.
C24_ArangeLength ==
    Returned("arange") =>
        LET n == Len(out.data)
            d == ArangeLast - ArangeFirst
        IN /\ Ok
           /\ out.shape = <<n>>
           /\ d * ArangeStep > 0 => IsCeil(n, d, ArangeStep)
           /\ d * ArangeStep <= 0 => n = 0
           /\ IntegerArguments =>
                 \A i \in 1..n :
                    /\ out.data[i].re = ArangeFirst + (i - 1) * ArangeStep
                    /\ out.data[i].im = 0
                    /\ InHalfOpen(out.data[i].re, ArangeFirst, ArangeLast, ArangeStep)
                    /\ out.data[i].re # ArangeLast

C24_Witness ==
    /\ Returned("arange")
    /\ x1.data = <<Scalar("int", 4, 0), Scalar("int", 0 - 4, 0), Scalar("int", 0 - 4, 0)>>
    /\ out.shape = <<2>>
    /\ out.data = <<[re |-> 4, im |-> 0], [re |-> 0, im |-> 0]>>

(***************************************************************************)
(* Consistency of the four arrays of unique_all.                           *)
(***************************************************************************)
\* the flattened positions, counted from 0, that inverse_indices sends to group g
SentTo(g) ==
    {i \in 0..(Len(out.inverse_indices.data) - 1) : out.inverse_indices.data[i + 1] = g}

\* C26: in a result of unique_all, with groups and positions counted from 0,
\* counts[g] is the number of positions i with inverse_indices[i] = g and is
\* at least 1, every inverse_indices[i] is the number of a group,
\* inverse_indices[indices[g]] = g, and the entries of indices are pairwise
\* distinct positions of the input.
C26_UniqueAllConsistent ==
    Returned("unique_all") =>
        LET n == Len(out.values.data)
            len == Len(x1.data)
        IN /\ Len(out.counts.data) = n
           /\ Len(out.indices.data) = n
           /\ Len(out.inverse_indices.data) = len
           /\ \A i \in 1..len : out.inverse_indices.data[i] \in 0..(n - 1)
           /\ \A g \in 1..n :
                 /\ out.counts.data[g] = Cardinality(SentTo(g - 1))
                 /\ out.counts.data[g] >= 1
                 /\ out.indices.data[g] \in 0..(len - 1)
                 /\ out.inverse_indices.data[out.indices.data[g] + 1] = g - 1
           /\ \A g, h \in 1..n :
                 out.indices.data[g] = out.indices.data[h] => g = h

C26_Witness ==
    /\ Returned("unique_all")
    /\ x1.data = <<Cx(One, PosZero), Cx(NaN, PosZero), Cx(One, PosZero)>>
    /\ out.indices.data = <<1, 0>>
    /\ out.inverse_indices.data = <<1, 0, 1>>
    /\ out.counts.data = <<1, 2>>

(***************************************************************************)
(* Partitioned grouping against the sequential pass.                       *)
(***************************************************************************)
\* the result at hand is one that a single pass over the whole flattened
\* input gives: unique_all of the grouping of the whole input, for the order
\* of the groups and the representatives that the result shows
IsSequentialResult ==
    LET grp == Grouping(x1.data)
        ord == [g \in 1..Len(out.indices.data) |-> out.indices.data[g] + 1]
        vals == out.values.data
    IN /\ {ord[g] : g \in 1..Len(ord)} = Firsts(grp)
       /\ Len(ord) = Cardinality(Firsts(grp))
       /\ vals \in Reps(x1.data, grp, ord)
       /\ out = unique_all(x1, grp, ord, vals)

\* positions of the input, counted from 1, that the result puts in group g
PositionsIn(g) ==
    {i \in 1..Len(x1.data) : out.inverse_indices.data[i] = g - 1}

\* what the table of partition p counts for group g of the result
CountedBy(p, g) ==
    SumSeq([k \in 1..Len(tables.part[p]) |->
               IF GlobalPosition(tables.asg, p, tables.part[p][k].first) \in PositionsIn(g)
               THEN tables.part[p][k].count
               ELSE 0])

AllMerged ==
    /\ \A p \in 1..Len(tables.part) :
          /\ tables.scanned[p] = Cardinality(PositionsOf(tables.asg, p))
          /\ \E k \in 1..Len(tables.merged) : tables.merged[k] = p
    /\ Len(tables.merged) = Len(tables.part)

\* C25: for every assignment of the positions to partitions, every
\* interleaving of the workers and every order of merging, there is no result
\* before every partition has been gone through and merged, and the result is
\* one a sequential pass over the whole input gives: indices[g] is the
\* least position of the whole input in group g, counts[g] is the sum of what
\* the tables of the partitions count for group g, and inverse_indices[i] is
\* the place in values of the value of element i.
C25_MergeIsSequential ==
    /\ out # NoOut => (pc = "done" /\ AllMerged)
    /\ pc = "done" =>
          /\ IsSequentialResult
          /\ \A g \in 1..Len(out.values.data) :
                /\ PositionsIn(g) # {}
                /\ \A i \in PositionsIn(g) : out.indices.data[g] + 1 <= i
                /\ out.indices.data[g] + 1 \in PositionsIn(g)
                /\ out.counts.data[g] =
                      SumSeq([p \in 1..Len(tables.part) |-> CountedBy(p, g)])
          /\ \A i \in 1..Len(x1.data) :
                LET v == out.values.data[out.inverse_indices.data[i] + 1]
                IN IF HasNaN(x1.data[i]) THEN v = x1.data[i] ELSE Equal(v, x1.data[i])

C25_Witness ==
    /\ pc = "done"
    /\ x1.data = <<Cx(One, PosZero), Cx(One, PosZero), Cx(NaN, PosZero)>>
    /\ tables.asg = <<1, 2, 2>>
    /\ tables.merged = <<2, 1>>
    /\ tables.part[2][1].first = 1
    /\ out.indices.data = <<0, 2>>
    /\ out.counts.data = <<2, 1>>
    /\ out.inverse_indices.data = <<0, 0, 1>>

====
